---- MODULE Spec2Model ----
(***************************************************************************)
(* A model of the enhanced web scraper (src/scripts/free_scraper.py):      *)
(* the proxy pool, the retry loop of scrape_url, the URL-keyed strategy    *)
(* dispatch, and the heuristic entity / relationship extraction.           *)
(*                                                                         *)
(* Strings are TLA+ strings; a character is a string of length one.        *)
(* Regular expressions of the source are written out as matchers that      *)
(* return the index just after the match (0 when there is no match at the  *)
(* given start), following Python's leftmost, greedy, backtracking rules.  *)
(***************************************************************************)
EXTENDS Integers, Sequences, FiniteSets, TLC

-----------------------------------------------------------------------------
(* Characters and strings                                                  *)

Digit == {"0", "1", "2", "3", "4", "5", "6", "7", "8", "9"}

UpperAlphabet == "ABCDEFGHIJKLMNOPQRSTUVWXYZ"

LowerAlphabet == "abcdefghijklmnopqrstuvwxyz"

Ch(s, i) == SubSeq(s, i, i)

Upper == {Ch(UpperAlphabet, k) : k \in 1..Len(UpperAlphabet)}

Lower == {Ch(LowerAlphabet, k) : k \in 1..Len(LowerAlphabet)}

Space == {" ", "\t", "\n", "\r"}

WordChar == Digit \cup Upper \cup Lower \cup {"_"}

Min(S) == CHOOSE m \in S : \A k \in S : m <= k

\* The character at position i, or "" outside the string.
At(s, i) == IF i >= 1 /\ i <= Len(s) THEN Ch(s, i) ELSE ""

\* str.lower() on one character.
LowerCh(c) ==
    IF c \in Upper
    THEN Ch(LowerAlphabet, CHOOSE k \in 1..Len(UpperAlphabet) : Ch(UpperAlphabet, k) = c)
    ELSE c

\* str.upper() on one character.
UpperCh(c) ==
    IF c \in Lower
    THEN Ch(UpperAlphabet, CHOOSE k \in 1..Len(LowerAlphabet) : Ch(LowerAlphabet, k) = c)
    ELSE c

\* str.lower(): halves are lowered separately to keep the recursion shallow.
RECURSIVE ToLower(_)
ToLower(s) ==
    IF Len(s) = 0 THEN ""
    ELSE IF Len(s) = 1 THEN LowerCh(s)
    ELSE LET h == Len(s) \div 2
         IN ToLower(SubSeq(s, 1, h)) \o ToLower(SubSeq(s, h + 1, Len(s)))

\* Python's "needle in hay".
Contains(hay, needle) ==
    \E i \in 1..(Len(hay) - Len(needle) + 1) :
        SubSeq(hay, i, i + Len(needle) - 1) = needle

\* The literal lit occurs in s at position i.
LitAt(s, i, lit) ==
    /\ i >= 1
    /\ i + Len(lit) - 1 <= Len(s)
    /\ SubSeq(s, i, i + Len(lit) - 1) = lit

\* The literal lit occurs in s at position i, ignoring case (re.IGNORECASE).
LitAtIgnoreCase(s, i, lit) ==
    /\ i >= 1
    /\ i + Len(lit) - 1 <= Len(s)
    /\ ToLower(SubSeq(s, i, i + Len(lit) - 1)) = ToLower(lit)

\* The first index >= i whose character is not in class C (Len(s)+1 if none):
\* the end of a greedy C* starting at i.
RunEnd(s, i, C) ==
    CHOOSE j \in i..(Len(s) + 1) :
        /\ j = Len(s) + 1 \/ Ch(s, j) \notin C
        /\ \A k \in i..(j - 1) : Ch(s, k) \in C

\* \b at the gap before position i.
WordBoundary(s, i) == (At(s, i - 1) \in WordChar) # (At(s, i) \in WordChar)

\* s[:n]
Take(seq, n) == SubSeq(seq, 1, IF Len(seq) < n THEN Len(seq) ELSE n)

\* The values f[lo], ..., f[hi] as a sequence; the halves are built
\* separately to keep the recursion shallow.
RECURSIVE Tabulate(_, _, _)
Tabulate(f, lo, hi) ==
    IF lo > hi THEN << >>
    ELSE IF lo = hi THEN <<f[lo]>>
    ELSE LET mid == (lo + hi) \div 2
         IN Tabulate(f, lo, mid) \o Tabulate(f, mid + 1, hi)

\* re.findall's scan from position p: ends[i] is the end (exclusive) of the
\* match starting at i, or 0; matches are taken leftmost first and do not
\* overlap.  At most limit matches are returned (findall(...)[:limit]).
RECURSIVE FindAll(_, _, _)
FindAll(ends, p, limit) ==
    IF limit = 0 \/ \A i \in p..Len(ends) : ends[i] = 0 THEN << >>
    ELSE LET i == CHOOSE i \in p..Len(ends) :
                      ends[i] > 0 /\ \A j \in p..(i - 1) : ends[j] = 0
         IN <<[from |-> i, to |-> ends[i]]>> \o FindAll(ends, ends[i], limit - 1)

\* The matched text of a span.
Text(s, m) == SubSeq(s, m.from, m.to - 1)

\* All orders in which the elements of a finite set can be listed
\* (Python's list(set(..)) fixes no order).
Orders(S) ==
    {f \in [1..Cardinality(S) -> S] : \A a, b \in 1..Cardinality(S) : a # b => f[a] # f[b]}

-----------------------------------------------------------------------------
(* Proxy pool: load_free_proxies, get_next_proxy                           *)

\* \d{1,3} followed by the separator sep: end index after sep, or 0.
OctetEnd(s, i, sep) ==
    LET e == RunEnd(s, i, Digit)
    IN IF e - i >= 1 /\ e - i <= 3 /\ At(s, e) = sep THEN e + 1 ELSE 0

\* \d{1,3}\.\d{1,3}\.\d{1,3}\.\d{1,3}:\d{2,5}
ProxyEnd(s, i) ==
    LET a == OctetEnd(s, i, ".")
        b == IF a = 0 THEN 0 ELSE OctetEnd(s, a, ".")
        c == IF b = 0 THEN 0 ELSE OctetEnd(s, b, ".")
        d == IF c = 0 THEN 0 ELSE OctetEnd(s, c, ":")
        e == IF d = 0 THEN 0 ELSE RunEnd(s, d, Digit)
    IN IF d = 0 \/ e - d < 2 THEN 0
       ELSE IF e - d > 5 THEN d + 5 ELSE e

ProxiesIn(body) ==
    LET ms == FindAll(Tabulate([i \in 1..Len(body) |-> ProxyEnd(body, i)], 1, Len(body)),
                      1, Len(body) + 1)
    IN [k \in 1..Len(ms) |-> Text(body, ms[k])]

-----------------------------------------------------------------------------
(* Pieces shared by the entity patterns                                    *)

\* [A-Z][a-z]+ at i: the index after the word (the lower-case run is taken
\* whole: every pattern continues with \s, \b or nothing), or 0.
CapWordEnd(s, i) ==
    IF At(s, i) \in Upper /\ At(s, i + 1) \in Lower
    THEN RunEnd(s, i + 1, Lower)
    ELSE 0

\* \s+[A-Z][a-z]+ at e: the index after the word, or 0.
NextCapWordEnd(s, e) ==
    LET w == RunEnd(s, e, Space)
    IN IF w > e THEN CapWordEnd(s, w) ELSE 0

\* (?:\s+[A-Z][a-z]+)* from e: the positions after 0, 1, 2, ... repetitions,
\* in that order.  The greedy star takes the last one first and gives
\* repetitions back one at a time.
RECURSIVE StarEnds(_, _)
StarEnds(s, e) ==
    LET n == NextCapWordEnd(s, e)
    IN IF n = 0 THEN <<e>> ELSE <<e>> \o StarEnds(s, n)

\* conts[j] is the end reached by what follows the repetition after j - 1
\* repetitions, or 0: the end reached from the longest repetition after
\* which the rest matches, or 0 when it matches after none.
Backtrack(conts) ==
    LET ok == {j \in 1..Len(conts) : conts[j] > 0}
    IN IF ok = {} THEN 0
       ELSE conts[CHOOSE j \in ok : \A k \in ok : k <= j]

\* The first alternative of alts (in order) that occurs at i: its index in
\* alts, or 0.
FirstAlt(s, i, alts, ignorecase) ==
    LET hit == {k \in 1..Len(alts) :
                   IF ignorecase THEN LitAtIgnoreCase(s, i, alts[k]) ELSE LitAt(s, i, alts[k])}
    IN IF hit = {} THEN 0 ELSE Min(hit)

\* The first alternative of alts (in order) that occurs at i and is followed
\* by a word boundary: its index in alts, or 0.
FirstAltWord(s, i, alts, ignorecase) ==
    LET hit == {k \in 1..Len(alts) :
                   /\ IF ignorecase THEN LitAtIgnoreCase(s, i, alts[k]) ELSE LitAt(s, i, alts[k])
                   /\ WordBoundary(s, i + Len(alts[k]))}
    IN IF hit = {} THEN 0 ELSE Min(hit)

\* findall with a matcher tabulated over the text (ends[i] as in FindAll),
\* at most limit matches.
Matches(ends, limit) == FindAll(Tabulate(ends, 1, Len(ends)), 1, limit)

\* The matched texts of a list of spans.
Texts(s, ms) == [k \in 1..Len(ms) |-> Text(s, ms[k])]

Unlimited(s) == Len(s) + 1

\* str.strip()
Strip(s) ==
    LET a == RunEnd(s, 1, Space)
    IN IF a > Len(s) THEN ""
       ELSE LET b == CHOOSE j \in a..Len(s) :
                        /\ Ch(s, j) \notin Space
                        /\ \A k \in (j + 1)..Len(s) : Ch(s, k) \in Space
            IN SubSeq(s, a, b)

\* str.isupper(): some cased character, and no lower-case one.
IsUpper(s) ==
    /\ \E i \in 1..Len(s) : Ch(s, i) \in Upper
    /\ \A i \in 1..Len(s) : Ch(s, i) \notin Lower

\* re.match(r'^\d+$', s)
IsNumber(s) == Len(s) > 0 /\ \A i \in 1..Len(s) : Ch(s, i) \in Digit

Entity(name, description) == [name |-> name, description |-> description]

-----------------------------------------------------------------------------
(* extract_real_estate_entities                                            *)

PriceLimit == 5

AddressLimit == 3

FeatureLimit == 5

\* \$[\d,]+(?:\.\d{2})?
PriceEnd(s, i) ==
    IF At(s, i) # "$" THEN 0
    ELSE LET e == RunEnd(s, i + 1, Digit \cup {","})
         IN IF e = i + 1 THEN 0
            ELSE IF At(s, e) = "." /\ At(s, e + 1) \in Digit /\ At(s, e + 2) \in Digit
                 THEN e + 3
                 ELSE e

StreetSuffixes ==
    <<"St", "Street", "Ave", "Avenue", "Rd", "Road", "Dr", "Drive", "Blvd",
      "Boulevard", "Ln", "Lane", "Way", "Ct", "Court">>

\* (?:\s+(?:St|Street|...)) at e
StreetSuffixEnd(s, e) ==
    LET w == RunEnd(s, e, Space)
        k == IF w > e THEN FirstAlt(s, w, StreetSuffixes, FALSE) ELSE 0
    IN IF k = 0 THEN 0 ELSE w + Len(StreetSuffixes[k])

\* \d+\s+[A-Z][a-z]+(?:\s+[A-Z][a-z]+)*(?:\s+(?:St|Street|...))
AddressEnd(s, i) ==
    LET d == RunEnd(s, i, Digit)
        w == RunEnd(s, d, Space)
        c == IF d > i /\ w > d THEN CapWordEnd(s, w) ELSE 0
        ends == IF c = 0 THEN << >> ELSE StarEnds(s, c)
    IN Backtrack([j \in 1..Len(ends) |-> StreetSuffixEnd(s, ends[j])])

PropertyFeatures ==
    <<"bed", "bedroom", "bath", "bathroom", "garage", "car", "sqft", "sq ft", "acre">>

\* The alternative of (bed|bedroom|...) taken at w, where s?\b must follow:
\* its index in PropertyFeatures, or 0.
PropertyFeatureAlt(s, w) ==
    LET hit == {k \in 1..Len(PropertyFeatures) :
                   /\ LitAtIgnoreCase(s, w, PropertyFeatures[k])
                   /\ LET e == w + Len(PropertyFeatures[k])
                      IN \/ LowerCh(At(s, e)) = "s" /\ WordBoundary(s, e + 1)
                         \/ WordBoundary(s, e)}
    IN IF hit = {} THEN 0 ELSE Min(hit)

\* \b(\d+)\s+(bed|bedroom|...)s?\b with re.IGNORECASE
PropertyFeatureEnd(s, i) ==
    LET d == RunEnd(s, i, Digit)
        w == RunEnd(s, d, Space)
        k == IF WordBoundary(s, i) /\ d > i /\ w > d THEN PropertyFeatureAlt(s, w) ELSE 0
    IN IF k = 0 THEN 0
       ELSE LET e == w + Len(PropertyFeatures[k])
            IN IF LowerCh(At(s, e)) = "s" /\ WordBoundary(s, e + 1) THEN e + 1 ELSE e

\* f"{count} {feature}" of a feature match: the two groups, not the match.
PropertyFeatureName(s, m) ==
    LET d == RunEnd(s, m.from, Digit)
        w == RunEnd(s, d, Space)
        k == PropertyFeatureAlt(s, w)
    IN SubSeq(s, m.from, d - 1) \o " " \o SubSeq(s, w, w + Len(PropertyFeatures[k]) - 1)

extract_real_estate_entities(text) ==
    LET prices == Texts(text,
                        Matches([i \in 1..Len(text) |-> PriceEnd(text, i)], PriceLimit))
        addresses == Texts(text,
                           Matches([i \in 1..Len(text) |-> AddressEnd(text, i)], AddressLimit))
        fms       == Matches([i \in 1..Len(text) |-> PropertyFeatureEnd(text, i)], FeatureLimit)
        features  == [k \in 1..Len(fms) |-> PropertyFeatureName(text, fms[k])]
    IN [k \in 1..Len(prices) |-> Entity(prices[k], "Real estate price: " \o prices[k])]
       \o [k \in 1..Len(addresses) |->
              Entity(addresses[k], "Property address: " \o addresses[k])]
       \o [k \in 1..Len(features) |->
              Entity(features[k], "Property feature: " \o features[k])]

-----------------------------------------------------------------------------
(* extract_professional_entities                                           *)

JobTitleLimit == 5

CompanyLimit == 5

Seniorities ==
    <<"Senior", "Junior", "Lead", "Principal", "Director", "Manager", "Engineer",
      "Developer", "Analyst", "Specialist", "Coordinator", "Executive", "VP",
      "Vice President", "CEO", "CTO", "CFO">>

\* [A-Z][a-z]+(?:\s+[A-Z][a-z]+)* preceded by \s+, from e: the end, or 0.
CapPhraseAfterSpaceEnd(s, e) ==
    LET c == NextCapWordEnd(s, e)
    IN IF c = 0 THEN 0
       ELSE LET ends == StarEnds(s, c) IN ends[Len(ends)]

\* \b(?:Senior|...|CFO)\s+[A-Z][a-z]+(?:\s+[A-Z][a-z]+)*
JobTitleEnd(s, i) ==
    LET hit == {k \in 1..Len(Seniorities) :
                   /\ LitAt(s, i, Seniorities[k])
                   /\ CapPhraseAfterSpaceEnd(s, i + Len(Seniorities[k])) > 0}
    IN IF ~WordBoundary(s, i) \/ hit = {} THEN 0
       ELSE CapPhraseAfterSpaceEnd(s, i + Len(Seniorities[Min(hit)]))

CompanyCues == <<"at", "@", "works at", "employed by">>

CompanySuffixes == <<"LLC", "Corp", "Company", "Ltd">>

\* The cue of (?:at|@|works at|employed by) taken at i (the first one after
\* which \s+[A-Z][a-z]+ follows): its index, or 0.
CompanyCue(s, i) ==
    LET hit == {k \in 1..Len(CompanyCues) :
                   /\ LitAt(s, i, CompanyCues[k])
                   /\ NextCapWordEnd(s, i + Len(CompanyCues[k])) > 0}
    IN IF hit = {} THEN 0 ELSE Min(hit)

\* (?:at|@|works at|employed by)\s+([A-Z][a-z]+(?:\s+[A-Z][a-z]+)*(?:\s+Inc|LLC|Corp|Company|Ltd)?)
CompanyEnd(s, i) ==
    LET q == CompanyCue(s, i)
    IN IF q = 0 THEN 0
       ELSE LET e == CapPhraseAfterSpaceEnd(s, i + Len(CompanyCues[q]))
                w == RunEnd(s, e, Space)
                k == FirstAlt(s, e, CompanySuffixes, FALSE)
            IN IF w > e /\ LitAt(s, w, "Inc") THEN w + 3
               ELSE IF k # 0 THEN e + Len(CompanySuffixes[k])
               ELSE e

\* Group 1 of a company match: the text after the cue and its white space.
CompanyName(s, m) ==
    LET q == CompanyCue(s, m.from)
        w == RunEnd(s, m.from + Len(CompanyCues[q]), Space)
    IN SubSeq(s, w, m.to - 1)

extract_professional_entities(text) ==
    LET job_titles == Texts(text,
                            Matches([i \in 1..Len(text) |-> JobTitleEnd(text, i)], JobTitleLimit))
        cms        == Matches([i \in 1..Len(text) |-> CompanyEnd(text, i)], CompanyLimit)
        companies  == [k \in 1..Len(cms) |-> CompanyName(text, cms[k])]
    IN [k \in 1..Len(job_titles) |-> Entity(job_titles[k], "Job title: " \o job_titles[k])]
       \o [k \in 1..Len(companies) |-> Entity(companies[k], "Company: " \o companies[k])]

-----------------------------------------------------------------------------
(* extract_product_entities                                                *)

BrandLimit == 5

ProductFeatureLimit == 10

BrandCues == <<"Brand", "by", "from">>

\* \s+(?:Brand|by|from) at e
BrandCueEnd(s, e) ==
    LET w == RunEnd(s, e, Space)
        k == IF w > e THEN FirstAlt(s, w, BrandCues, FALSE) ELSE 0
    IN IF k = 0 THEN 0 ELSE w + Len(BrandCues[k])

\* \b[A-Z][a-z]+(?:\s+[A-Z][a-z]+)*\s+(?:Brand|by|from)
BrandEnd(s, i) ==
    LET c == IF WordBoundary(s, i) THEN CapWordEnd(s, i) ELSE 0
        ends == IF c = 0 THEN << >> ELSE StarEnds(s, c)
    IN Backtrack([j \in 1..Len(ends) |-> BrandCueEnd(s, ends[j])])

\* str.replace(old, ''): every occurrence, left to right.
RECURSIVE Remove(_, _)
Remove(s, old) ==
    LET occ == {i \in 1..Len(s) : LitAt(s, i, old)}
    IN IF occ = {} THEN s
       ELSE LET i == Min(occ)
            IN SubSeq(s, 1, i - 1) \o Remove(SubSeq(s, i + Len(old), Len(s)), old)

\* brand.replace(' Brand', '').replace(' by', '').replace(' from', '').strip()
BrandClean(brand) == Strip(Remove(Remove(Remove(brand, " Brand"), " by"), " from"))

ProductFeatures ==
    <<"wireless", "bluetooth", "waterproof", "rechargeable", "portable", "digital",
      "smart", "premium", "professional", "heavy duty">>

\* \b(wireless|...|heavy duty)\b with re.IGNORECASE
ProductFeatureEnd(s, i) ==
    LET k == IF WordBoundary(s, i) THEN FirstAltWord(s, i, ProductFeatures, TRUE) ELSE 0
    IN IF k = 0 THEN 0 ELSE i + Len(ProductFeatures[k])

\* str.title(): a letter after a letter is lowered, any other letter raised.
RECURSIVE TitleFrom(_, _)
TitleFrom(s, i) ==
    IF i > Len(s) THEN ""
    ELSE (IF At(s, i - 1) \in Upper \cup Lower THEN LowerCh(Ch(s, i)) ELSE UpperCh(Ch(s, i)))
         \o TitleFrom(s, i + 1)

Title(s) == TitleFrom(s, 1)

\* The distinct product features among the first ten matches: set(features[:10]).
ProductFeatureSet(text) ==
    LET features == Texts(text,
                          Matches([i \in 1..Len(text) |-> ProductFeatureEnd(text, i)], ProductFeatureLimit))
    IN {features[k] : k \in 1..Len(features)}

\* order: the order in which Python iterates set(features[:10]).
extract_product_entities(text, order) ==
    LET brands == Texts(text,
                        Matches([i \in 1..Len(text) |-> BrandEnd(text, i)], BrandLimit))
    IN [k \in 1..Len(brands) |->
           Entity(BrandClean(brands[k]), "Product brand: " \o BrandClean(brands[k]))]
       \o [k \in 1..Len(order) |->
              Entity(Title(order[k]), "Product feature: " \o order[k])]

-----------------------------------------------------------------------------
(* extract_general_entities                                                *)

GeneralLimit == 15

MinTermLen == 2

MaxTermLen == 50

\* \b closing a match at e
WordEndHere(s, e) == IF WordBoundary(s, e) THEN e ELSE 0

\* \b[A-Z][a-z]+(?:\s+[A-Z][a-z]+)*\b
ProperNounEnd(s, i) ==
    LET c == IF WordBoundary(s, i) THEN CapWordEnd(s, i) ELSE 0
        ends == IF c = 0 THEN << >> ELSE StarEnds(s, c)
    IN Backtrack([j \in 1..Len(ends) |-> WordEndHere(s, ends[j])])

TechTerms ==
    <<"API", "SDK", "framework", "library", "database", "server", "client",
      "protocol", "algorithm", "software", "platform", "system", "application",
      "service", "tool", "technology">>

\* \b(?:API|SDK|...|technology)\b with re.IGNORECASE
TechTermEnd(s, i) ==
    LET k == IF WordBoundary(s, i) THEN FirstAltWord(s, i, TechTerms, TRUE) ELSE 0
    IN IF k = 0 THEN 0 ELSE i + Len(TechTerms[k])

OrgSuffixes ==
    <<"Inc", "LLC", "Corp", "Company", "Ltd", "Organization", "Foundation", "Institute">>

\* \s+(?:Inc|LLC|...|Institute)\b at e
OrgSuffixEnd(s, e) ==
    LET w == RunEnd(s, e, Space)
        k == IF w > e THEN FirstAltWord(s, w, OrgSuffixes, FALSE) ELSE 0
    IN IF k = 0 THEN 0 ELSE w + Len(OrgSuffixes[k])

\* \b[A-Z][a-z]+(?:\s+[A-Z][a-z]+)*\s+(?:Inc|LLC|...|Institute)\b
OrgTermEnd(s, i) ==
    LET c == IF WordBoundary(s, i) THEN CapWordEnd(s, i) ELSE 0
        ends == IF c = 0 THEN << >> ELSE StarEnds(s, c)
    IN Backtrack([j \in 1..Len(ends) |-> OrgSuffixEnd(s, ends[j])])

\* The test of the loop over all_terms (lines 471-474).
GeneralTermKept(term, seen) ==
    /\ Len(term) > MinTermLen
    /\ Len(term) < MaxTermLen
    /\ term \notin seen
    /\ ~IsUpper(term)
    /\ ~IsNumber(term)

\* The loop over all_terms from index i, with the entities and the seen set
\* built so far; it breaks once GeneralLimit entities are held.
RECURSIVE GeneralLoop(_, _, _, _)
GeneralLoop(all_terms, i, entities, seen) ==
    IF i > Len(all_terms) THEN entities
    ELSE LET term == Strip(all_terms[i])
         IN IF GeneralTermKept(term, seen)
            THEN LET added == Append(entities,
                                     Entity(term, "Entity extracted from content: " \o term))
                 IN IF Len(added) >= GeneralLimit THEN added
                    ELSE GeneralLoop(all_terms, i + 1, added, seen \cup {term})
            ELSE GeneralLoop(all_terms, i + 1, entities, seen)

extract_general_entities(text) ==
    LET proper_nouns == Texts(text,
                              Matches([i \in 1..Len(text) |-> ProperNounEnd(text, i)], Unlimited(text)))
        tech_terms == Texts(text,
                            Matches([i \in 1..Len(text) |-> TechTermEnd(text, i)], Unlimited(text)))
        org_terms == Texts(text,
                           Matches([i \in 1..Len(text) |-> OrgTermEnd(text, i)], Unlimited(text)))
    IN GeneralLoop(proper_nouns \o tech_terms \o org_terms, 1, << >>, {})

-----------------------------------------------------------------------------
(* determine_enhanced_relationship_type, create_enhanced_relationships     *)

RelationshipLimit == 20

MinSentenceLen == 20

SentenceLimit == 100

DescriptionLen == 150

\* all(...) in place of any(...): every word of the list has to occur.
AllIn(sentence_lower, words) == \A k \in 1..Len(words) : Contains(sentence_lower, words[k])

\* any(word in sentence_lower for word in words)
AnyIn(sentence_lower, words) == \E k \in 1..Len(words) : Contains(sentence_lower, words[k])

determine_enhanced_relationship_type(sentence, entity1, entity2) ==
    LET sentence_lower == ToLower(sentence)
    IN IF AnyIn(sentence_lower, <<"located", "in", "at", "near", "address">>)
       THEN "LOCATED_AT"
       ELSE IF AnyIn(sentence_lower, <<"owns", "belongs to", "property of", "owned by">>)
       THEN "OWNS"
       ELSE IF AnyIn(sentence_lower, <<"works at", "employed by", "ceo of", "manager of">>)
       THEN "EMPLOYED_BY"
       ELSE IF AnyIn(sentence_lower, <<"manufactured by", "made by", "brand">>)
       THEN "MANUFACTURED_BY"
       ELSE IF AnyIn(sentence_lower, <<"costs", "priced at", "$", "price">>)
       THEN "PRICED_AT"
       ELSE IF AnyIn(sentence_lower, <<"uses", "implements", "utilizes">>)
       THEN "USES"
       ELSE IF AnyIn(sentence_lower, <<"creates", "generates", "produces">>)
       THEN "CREATES"
       ELSE IF AnyIn(sentence_lower, <<"part of", "component of", "belongs to">>)
       THEN "PART_OF"
       ELSE IF AnyIn(sentence_lower, <<"similar to", "like", "comparable">>)
       THEN "SIMILAR_TO"
       ELSE IF AnyIn(sentence_lower, <<"works with", "integrates", "connects">>)
       THEN "INTEGRATES_WITH"
       ELSE "RELATED_TO"

SentenceEnd == {".", "!", "?"}

\* The first index >= i whose character is in D (Len(s)+1 if none).
StopAt(s, i, D) ==
    CHOOSE j \in i..(Len(s) + 1) :
        /\ j = Len(s) + 1 \/ Ch(s, j) \in D
        /\ \A k \in i..(j - 1) : Ch(s, k) \notin D

\* re.split(r'[.!?]+', text) from index i: the pieces between the runs of
\* sentence punctuation, an empty piece included where a run opens or
\* closes the text.
RECURSIVE SplitFrom(_, _)
SplitFrom(text, i) ==
    LET p == StopAt(text, i, SentenceEnd)
    IN IF p > Len(text) THEN <<SubSeq(text, i, Len(text))>>
       ELSE <<SubSeq(text, i, p - 1)>> \o SplitFrom(text, RunEnd(text, p, SentenceEnd))

Sentences(text) == SplitFrom(text, 1)

Relationship(sentence, entity1, entity2) ==
    [entity1 |-> [name |-> entity1.name],
     entity2 |-> [name |-> entity2.name],
     relation_type |-> determine_enhanced_relationship_type(sentence, entity1.name, entity2.name),
     description |-> "Relationship found: " \o Take(sentence, DescriptionLen) \o "..."]

\* The limit test with > in place of >=: one append too many.
LimitReachedLate(relationships) == Len(relationships) > RelationshipLimit

\* The limit test that guards every append (line 504).
LimitReached(relationships) == Len(relationships) >= RelationshipLimit

\* for entity2 in sentence_entities[i+1:], from index j; the break leaves
\* this loop only.
RECURSIVE InnerLoop(_, _, _, _, _)
InnerLoop(sentence, sentence_entities, i, j, relationships) ==
    IF j > Len(sentence_entities) THEN relationships
    ELSE IF LimitReached(relationships) THEN relationships
    ELSE InnerLoop(sentence, sentence_entities, i, j + 1,
                   Append(relationships,
                          Relationship(sentence, sentence_entities[i], sentence_entities[j])))

\* The inner loop over sentence_entities[i:] in place of [i+1:]: an entity
\* is paired with itself.
RECURSIVE OuterLoopSelf(_, _, _, _)
OuterLoopSelf(sentence, sentence_entities, i, relationships) ==
    IF i > Len(sentence_entities) THEN relationships
    ELSE OuterLoopSelf(sentence, sentence_entities, i + 1,
                       InnerLoop(sentence, sentence_entities, i, i, relationships))

\* for i, entity1 in enumerate(sentence_entities), from index i.
RECURSIVE OuterLoop(_, _, _, _)
OuterLoop(sentence, sentence_entities, i, relationships) ==
    IF i > Len(sentence_entities) THEN relationships
    ELSE OuterLoop(sentence, sentence_entities, i + 1,
                   InnerLoop(sentence, sentence_entities, i, i + 1, relationships))

\* [e for e in entities if e['name'].lower() in sentence.lower()]
SentenceEntities(entities, sentence) ==
    LET sentence_lower == ToLower(sentence)
    IN SelectSeq(entities, LAMBDA e : Contains(sentence_lower, ToLower(e.name)))

\* for sentence in sentences[:100], from index k.
RECURSIVE SentenceLoop(_, _, _, _)
SentenceLoop(sentences, k, entities, relationships) ==
    IF k > Len(sentences) THEN relationships
    ELSE LET sentence == Strip(sentences[k])
         IN IF Len(sentence) < MinSentenceLen
            THEN SentenceLoop(sentences, k + 1, entities, relationships)
            ELSE SentenceLoop(sentences, k + 1, entities,
                              OuterLoop(sentence, SentenceEntities(entities, sentence),
                                        1, relationships))

create_enhanced_relationships(entities, text) ==
    SentenceLoop(Take(Sentences(text), SentenceLimit), 1, entities, << >>)

-----------------------------------------------------------------------------
(* extract_knowledge_from_text                                             *)

EntityLimit == 25

MinNameLen == 2

\* 'keyword' in url.lower()
UrlHas(source_url, keyword) == Contains(ToLower(source_url), keyword)

\* The order in which set(features[:10]) can be iterated for this page; only
\* the product family iterates a set.
FeatureOrders(text, source_url) ==
    IF ~UrlHas(source_url, "zillow") /\ ~UrlHas(source_url, "linkedin")
       /\ UrlHas(source_url, "amazon")
    THEN Orders(ProductFeatureSet(text))
    ELSE {<< >>}

\* The candidate list built by lines 345-354: the domain family first, the
\* general family extended after it.
CandidateEntities(text, source_url, order) ==
    (IF UrlHas(source_url, "zillow") THEN extract_real_estate_entities(text)
     ELSE IF UrlHas(source_url, "linkedin") THEN extract_professional_entities(text)
     ELSE IF UrlHas(source_url, "amazon") THEN extract_product_entities(text, order)
     ELSE << >>)
    \o extract_general_entities(text)

\* The test of line 360 without its look at seen_names.
UniqueKeptUnseen(entity, seen_names) == Len(entity.name) > MinNameLen

\* The test of the loop that removes duplicates (line 360).
UniqueKept(entity, seen_names) ==
    entity.name \notin seen_names /\ Len(entity.name) > MinNameLen

\* The limit test with > in place of >=: one append too many.
EntityLimitReachedLate(unique_entities) == Len(unique_entities) > EntityLimit

\* The limit test after each append (line 363).
EntityLimitReached(unique_entities) == Len(unique_entities) >= EntityLimit

\* The loop over entities from index i (lines 357-364); it breaks once
\* EntityLimit entities are held.
RECURSIVE UniqueLoop(_, _, _, _)
UniqueLoop(entities, i, unique_entities, seen_names) ==
    IF i > Len(entities) THEN unique_entities
    ELSE IF UniqueKept(entities[i], seen_names)
         THEN LET added == Append(unique_entities, entities[i])
              IN IF EntityLimitReached(added) THEN added
                 ELSE UniqueLoop(entities, i + 1, added, seen_names \cup {entities[i].name})
         ELSE UniqueLoop(entities, i + 1, unique_entities, seen_names)

UniqueEntities(entities) == UniqueLoop(entities, 1, << >>, {})

SchemeChar == Upper \cup Lower \cup Digit \cup {"+", "-", "."}

\* urlparse(url).netloc
Netloc(urlstring) ==
    LET c  == StopAt(urlstring, 1, {":"})
        ok == /\ c > 1 /\ c <= Len(urlstring)
              /\ At(urlstring, 1) \in Upper \cup Lower
              /\ \A k \in 1..(c - 1) : Ch(urlstring, k) \in SchemeChar
        r  == IF ok THEN c + 1 ELSE 1
    IN IF LitAt(urlstring, r, "//")
       THEN SubSeq(urlstring, r + 2, StopAt(urlstring, r + 2, {"/", "?", "#"}) - 1)
       ELSE ""

extract_knowledge_from_text(text, source_url, method, order) ==
    LET unique_entities == UniqueEntities(CandidateEntities(text, source_url, order))
    IN [entities |-> unique_entities,
        relationships |-> create_enhanced_relationships(unique_entities, text),
        error |-> FALSE,
        extraction_method |-> "enhanced_" \o method,
        text_length |-> Len(text),
        domain |-> Netloc(source_url)]

-----------------------------------------------------------------------------
(* State                                                                   *)

VARIABLES
    pc,                   \* where the scraper is: "init", "idle", or a place in scrape_url
    free_proxies,         \* self.free_proxies
    current_proxy_index,  \* self.current_proxy_index
    url,                  \* scrape_url's url
    max_retries,          \* scrape_url's max_retries
    attempt,              \* the loop variable of scrape_url
    proxy_dict,           \* the attempt's proxy_dict
    result,               \* what the last scrape_url call returned
    sources_failed,       \* history: every proxy source failed to load
    loaded,               \* history: the pool as load_free_proxies left it
    proxy_calls,          \* history: calls of get_next_proxy since the load
    log,                  \* history: the events of the current scrape_url call
    scrapes,              \* history: calls of scrape_url made so far
    ex_pc,                \* where extract_knowledge_from_text is
    ex_text,              \* its text
    ex_source_url,        \* its source_url
    ex_entities,          \* its entities
    ex_unique_entities,   \* its unique_entities
    ex_relationships,     \* its relationships
    rt_pc,                \* where a call of determine_enhanced_relationship_type is
    rt_sentence,          \* its sentence
    rt_entity1,           \* its entity1
    rt_entity2,           \* its entity2
    rt_type,              \* what it returned
    m_pc,                 \* where main is
    start_url,            \* main's start_url
    extract_type,         \* main's extract_type
    max_pages,            \* main's max_pages
    urls_to_scrape,       \* main's urls_to_scrape
    m_i,                  \* main's loop index i
    all_knowledge,        \* main's all_knowledge
    summary,              \* what main returned
    m_log,                \* history: the fetches and delays of main
    cy_pc,                \* where process_json_files is
    cy_data,              \* the records of the file it reads
    cy_item,              \* the index of the record at hand
    all_queries,          \* the statements emitted so far
    entity_counter,       \* self.entity_counter
    relationship_counter, \* self.relationship_counter
    cy_total_entities,    \* process_json_files' total_entities
    cy_total_relationships \* process_json_files' total_relationships

scraperVars ==
    <<pc, free_proxies, current_proxy_index, url, max_retries, attempt,
      proxy_dict, result, sources_failed, loaded, proxy_calls, log, scrapes>>

extractVars ==
    <<ex_pc, ex_text, ex_source_url, ex_entities, ex_unique_entities, ex_relationships>>

typeVars == <<rt_pc, rt_sentence, rt_entity1, rt_entity2, rt_type>>

mainVars ==
    <<m_pc, start_url, extract_type, max_pages, urls_to_scrape, m_i, all_knowledge,
      summary, m_log>>

cypherVars ==
    <<cy_pc, cy_data, cy_item, all_queries, entity_counter, relationship_counter,
      cy_total_entities, cy_total_relationships>>

vars == <<scraperVars, extractVars, typeVars, mainVars, cypherVars>>

\* What the scraper's steps leave alone, and what the extraction's steps do.
besideScraper == <<extractVars, typeVars, mainVars, cypherVars>>

besideExtract == <<scraperVars, typeVars, mainVars, cypherVars>>

-----------------------------------------------------------------------------
(* Bounds and inputs                                                       *)

\* The largest max_retries a caller passes.
MaxRetries == 3

\* The number of scrape_url calls made on one scraper.
MaxScrapes == 2

SourceCount == 3

PerSourceLimit == 5

PoolLimit == 15

ProbeAttempts == 2

\* What a proxy source can answer: the request raises, or a status and a body.
SourceResponses ==
    {[raised |-> TRUE, status_code |-> 0, text |-> ""],
     [raised |-> FALSE, status_code |-> 503, text |-> "9.9.9.9:9999"],
     [raised |-> FALSE, status_code |-> 200, text |-> "no proxies today"],
     [raised |-> FALSE, status_code |-> 200, text |-> "1.1.1.1:80\n2.2.2.2:8080\n"],
     [raised |-> FALSE, status_code |-> 200, text |-> "<li>2.2.2.2:8080</li>"]}

Urls ==
    {"https://www.zillow.com/homes/",
     "https://www.LinkedIn.com/in/jane",
     "https://www.amazon.com/dp/B01",
     "https://www.linkedin.com/company/Amazon",
     "https://example.org/blog",
     "https://example.org/about"}

\* The messages of the exceptions a strategy's request can raise.
Errors == {"Read timed out", "403 Client Error"}

\* The text a strategy pulls out of a fetched page.
PageTexts ==
    {"123 Main St Springfield has 3 bedrooms and costs $450,000.",
     "Apple Inc. released the iPhone. The iPhone uses Bluetooth."}

-----------------------------------------------------------------------------
(* The scraper: __init__, load_free_proxies, get_next_proxy, scrape_url    *)

\* Python's None and a present value, as a sequence of length 0 or 1.
Some(v) == <<v>>

Event(ev, arg) ==
    [ev |-> ev, attempt |-> attempt, arg |-> arg,
     proxy |-> IF proxy_dict = << >> THEN "" ELSE proxy_dict[1].http]

\* The status test of line 79 left out: every answer that did not raise is
\* searched for proxies.
SourceAnswerAnyStatus(response) ==
    IF ~response.raised THEN Take(ProxiesIn(response.text), PerSourceLimit) ELSE << >>

\* What one source adds to the pool (lines 76-85): proxies[:5] of its answer,
\* nothing when the request raised or the status is not 200.
SourceAnswer(response) ==
    IF ~response.raised /\ response.status_code = 200
    THEN Take(ProxiesIn(response.text), PerSourceLimit)
    ELSE << >>

\* SourceAnswer of each answer a source can give.  (A table, so that the
\* pattern is run once per answer.)
SourceProxies == [response \in SourceResponses |-> SourceAnswer(response)]

SourceFailed(response) == response.raised \/ response.status_code # 200

load_free_proxies ==
    /\ pc = "init"
    /\ \E responses \in [1..SourceCount -> SourceResponses] :
          LET extended == free_proxies \o SourceProxies[responses[1]]
                              \o SourceProxies[responses[2]]
                              \o SourceProxies[responses[3]]
          IN \E order \in Orders({extended[k] : k \in 1..Len(extended)}) :
                /\ free_proxies' = Take(order, PoolLimit)
                /\ loaded' = Take(order, PoolLimit)
                /\ sources_failed' = \A k \in 1..SourceCount : SourceFailed(responses[k])
    /\ pc' = "idle"
    /\ UNCHANGED <<current_proxy_index, url, max_retries, attempt, proxy_dict,
                   result, proxy_calls, log, scrapes>>
    /\ UNCHANGED besideScraper

\* get_next_proxy without the advance of the cursor (line 102 left out).
get_next_proxy_stuck(pool, index) ==
    IF pool = << >>
    THEN [value |-> << >>, index |-> index]
    ELSE [value |-> Some([http |-> "http://" \o pool[index + 1],
                          https |-> "http://" \o pool[index + 1]]),
          index |-> index]

\* What get_next_proxy returns and where it leaves the cursor.
get_next_proxy(pool, index) ==
    IF pool = << >>
    THEN [value |-> << >>, index |-> index]
    ELSE [value |-> Some([http |-> "http://" \o pool[index + 1],
                          https |-> "http://" \o pool[index + 1]]),
          index |-> (index + 1) % Len(pool)]

\* scrape_url(u, k) is entered (lines 132-134).
Entered(u, k) ==
    /\ pc = "idle"
    /\ url' = u
    /\ max_retries' = k
    /\ attempt' = 0
    /\ proxy_dict' = << >>
    /\ result' = << >>
    /\ log' = << >>
    /\ scrapes' = scrapes + 1
    /\ pc' = "for"
    /\ UNCHANGED <<free_proxies, current_proxy_index, sources_failed, loaded, proxy_calls>>

\* A caller calls scrape_url(u, k).
scrape_url ==
    /\ scrapes < MaxScrapes
    /\ \E u \in Urls, k \in 1..MaxRetries : Entered(u, k)
    /\ UNCHANGED besideScraper

\* A loop that runs once too often: range(max_retries + 1).
InRangeInclusive(i, n) == i <= n

\* for attempt in range(max_retries): another value is left.
InRange(i, n) == i < n

\* A delay that spares the first retry as well: attempt > 1.
SleepDueLate(i) == i > 1

\* if attempt > 0 (line 139): every attempt but the first waits.
SleepDue(i) == i > 0

\* The loop takes its next attempt (line 136) and enters the try block.
next_attempt ==
    /\ pc = "for"
    /\ InRange(attempt, max_retries)
    /\ proxy_dict' = << >>
    /\ log' = Append(log, [ev |-> "attempt", attempt |-> attempt, arg |-> "", proxy |-> ""])
    /\ pc' = IF SleepDue(attempt) THEN "sleep" ELSE "select"
    /\ UNCHANGED <<free_proxies, current_proxy_index, url, max_retries, attempt, result,
                   sources_failed, loaded, proxy_calls, scrapes>>
    /\ UNCHANGED besideScraper

\* The loop is exhausted: line 185.
max_retries_exceeded ==
    /\ pc = "for"
    /\ ~InRange(attempt, max_retries)
    /\ result' = Some([error |-> TRUE, message |-> "Max retries exceeded", source_url |-> url])
    /\ log' = Append(log, Event("return", "Max retries exceeded"))
    /\ pc' = "idle"
    /\ UNCHANGED <<free_proxies, current_proxy_index, url, max_retries, attempt,
                   proxy_dict, sources_failed, loaded, proxy_calls, scrapes>>
    /\ UNCHANGED besideScraper

\* time.sleep(random.uniform(3, 8)) before a retry (lines 139-142).
backoff ==
    /\ pc = "sleep"
    /\ log' = Append(log, Event("sleep", ""))
    /\ pc' = "select"
    /\ UNCHANGED <<free_proxies, current_proxy_index, url, max_retries, attempt,
                   proxy_dict, result, sources_failed, loaded, proxy_calls, scrapes>>
    /\ UNCHANGED besideScraper

\* A probe before every attempt that has a proxy: the test on attempt left out.
ProbeDueAlways(proxy, i) == proxy # << >>

\* The probe is due: a proxy was obtained and the attempt is an early one.
ProbeDue(proxy, i) == proxy # << >> /\ i < ProbeAttempts

\* get_random_headers() and get_next_proxy() (lines 145-146).
select_proxy ==
    /\ pc = "select"
    /\ LET next == get_next_proxy(free_proxies, current_proxy_index)
       IN /\ proxy_dict' = next.value
          /\ current_proxy_index' = next.index
          /\ log' = log \o <<Event("headers", ""),
                             [ev |-> "proxy", attempt |-> attempt, arg |-> "",
                              proxy |-> IF next.value = << >> THEN "" ELSE next.value[1].http]>>
          /\ pc' = IF ProbeDue(next.value, attempt) THEN "probe" ELSE "dispatch"
    /\ proxy_calls' = proxy_calls + 1
    /\ UNCHANGED <<free_proxies, url, max_retries, attempt, result, sources_failed,
                   loaded, scrapes>>
    /\ UNCHANGED besideScraper

\* A failed probe that is not counted: the same attempt is taken again.
ContinueSame(i) == i

\* continue (line 156): the loop goes on with the next value of range.
Continue(i) == i + 1

\* test_proxy(proxy_dict): True on a 200 answer, False on any other answer
\* or exception; on False the attempt is left by continue (lines 154-156).
test_proxy ==
    /\ pc = "probe"
    /\ \E working \in BOOLEAN :
          IF working
          THEN /\ log' = Append(log, Event("probe", "working"))
               /\ pc' = "dispatch"
               /\ UNCHANGED attempt
          ELSE /\ log' = Append(log, Event("probe", "failed"))
               /\ pc' = "for"
               /\ attempt' = Continue(attempt)
    /\ UNCHANGED <<free_proxies, current_proxy_index, url, max_retries, proxy_dict,
                   result, sources_failed, loaded, proxy_calls, scrapes>>
    /\ UNCHANGED besideScraper

-----------------------------------------------------------------------------
(* Strategy dispatch (lines 160-183) and the four strategies               *)

\* The chain of lines 161-168 with the keywords looked up in the URL as
\* written, not in url.lower().
StrategyCaseSensitive(u) ==
    IF Contains(u, "zillow") THEN "scrape_zillow_specific"
    ELSE IF Contains(u, "linkedin") THEN "scrape_linkedin_specific"
    ELSE IF Contains(u, "amazon") THEN "scrape_amazon_specific"
    ELSE "scrape_generic_enhanced"

\* The if / elif chain of lines 161-168: the strategy called for a URL.
Strategy(u) ==
    IF UrlHas(u, "zillow") THEN "scrape_zillow_specific"
    ELSE IF UrlHas(u, "linkedin") THEN "scrape_linkedin_specific"
    ELSE IF UrlHas(u, "amazon") THEN "scrape_amazon_specific"
    ELSE "scrape_generic_enhanced"

\* The strategy of every URL a scrape can be given.
StrategyOf == [u \in Urls |-> Strategy(u)]

\* Line 172.
ScrapingMethod(proxy) == IF proxy # << >> THEN "enhanced_with_proxy" ELSE "enhanced_direct"

\* The test of line 173 turned around: proxy_dict is None.
ProxyUsedInverted(proxy) == proxy = << >>

\* Line 173: proxy_dict is not None.
ProxyUsed(proxy) == proxy # << >>

\* Lines 170-174: the strategy returned knowledge, which never carries an
\* error, so scrape_url tags and returns it.
Returned(strategy, knowledge) ==
    /\ result' = Some([entities |-> knowledge.entities,
                       relationships |-> knowledge.relationships,
                       error |-> knowledge.error,
                       extraction_method |-> knowledge.extraction_method,
                       text_length |-> knowledge.text_length,
                       domain |-> knowledge.domain,
                       source_url |-> url,
                       scraping_method |-> ScrapingMethod(proxy_dict),
                       proxy_used |-> ProxyUsed(proxy_dict)])
    /\ log' = log \o <<Event("dispatch", strategy), Event("return", "knowledge")>>
    /\ pc' = "idle"
    /\ UNCHANGED attempt

\* The message of the record returned from the except block (line 181).
FailureMessage(n, e) == "Failed after " \o ToString(n) \o " attempts: " \o e

\* The try block without its except clause: the exception leaves scrape_url
\* and whoever called it.
RaisedUncaught(strategy, e) ==
    /\ log' = log \o <<Event("dispatch", strategy), Event("raise", e)>>
    /\ pc' = "raised"
    /\ UNCHANGED <<attempt, result>>

\* Lines 176-183: the strategy raised e; the last attempt returns the
\* failure, any other goes on to the next attempt.
Raised(strategy, e) ==
    IF attempt = max_retries - 1
    THEN /\ result' = Some([error |-> TRUE,
                            message |-> FailureMessage(max_retries, e),
                            source_url |-> url])
         /\ log' = log \o <<Event("dispatch", strategy), Event("raise", e),
                            Event("return", FailureMessage(max_retries, e))>>
         /\ pc' = "idle"
         /\ UNCHANGED attempt
    ELSE /\ log' = log \o <<Event("dispatch", strategy), Event("raise", e)>>
         /\ pc' = "for"
         /\ attempt' = attempt + 1
         /\ UNCHANGED result

ZillowTextLimit == 10000

LinkedinTextLimit == 8000

AmazonTextLimit == 8000

GenericTextLimit == 10000

\* The cut each strategy applies to the text it pulled out of the page.
TextLimit(strategy) ==
    CASE strategy = "scrape_zillow_specific" -> ZillowTextLimit
      [] strategy = "scrape_linkedin_specific" -> LinkedinTextLimit
      [] strategy = "scrape_amazon_specific" -> AmazonTextLimit
      [] strategy = "scrape_generic_enhanced" -> GenericTextLimit

\* The method each strategy passes to extract_knowledge_from_text.
Method(strategy) ==
    CASE strategy = "scrape_zillow_specific" -> "zillow_specific_proxy"
      [] strategy = "scrape_linkedin_specific" -> "linkedin_specific_proxy"
      [] strategy = "scrape_amazon_specific" -> "amazon_specific_proxy"
      [] strategy = "scrape_generic_enhanced" -> "generic_enhanced"

\* What the strategy of u can return for a page whose pulled-out text is
\* page: extract_knowledge_from_text of the cut text, under each order in
\* which a set may be iterated.  (A table, so that the patterns are run
\* once per page.)
Knowledge ==
    [u \in Urls, page \in PageTexts |->
        LET cut == Take(page, TextLimit(Strategy(u)))
        IN {extract_knowledge_from_text(cut, u, Method(Strategy(u)), order) :
               order \in FeatureOrders(cut, u)}]

\* One strategy is called with the attempt's headers and proxy: its request
\* raises, or it returns the knowledge extracted from the page.
Dispatch(strategy) ==
    /\ pc = "dispatch"
    /\ StrategyOf[url] = strategy
    /\ \/ \E e \in Errors : Raised(strategy, e)
       \/ \E page \in PageTexts :
             \E knowledge \in Knowledge[url, page] : Returned(strategy, knowledge)
    /\ UNCHANGED <<free_proxies, current_proxy_index, url, max_retries, proxy_dict,
                   sources_failed, loaded, proxy_calls, scrapes>>
    /\ UNCHANGED besideScraper

scrape_zillow_specific == Dispatch("scrape_zillow_specific")

scrape_linkedin_specific == Dispatch("scrape_linkedin_specific")

scrape_amazon_specific == Dispatch("scrape_amazon_specific")

scrape_generic_enhanced == Dispatch("scrape_generic_enhanced")

-----------------------------------------------------------------------------
(* The scraper's specification                                             *)

ExtractIdle ==
    /\ ex_pc = "idle"
    /\ ex_text = ""
    /\ ex_source_url = ""
    /\ ex_entities = << >>
    /\ ex_unique_entities = << >>
    /\ ex_relationships = << >>

\* No call of determine_enhanced_relationship_type is under way.
TypeIdle ==
    /\ rt_pc = "idle"
    /\ rt_sentence = ""
    /\ rt_entity1 = ""
    /\ rt_entity2 = ""
    /\ rt_type = ""

\* main is not running.
MainIdle ==
    /\ m_pc = "idle"
    /\ start_url = ""
    /\ extract_type = ""
    /\ max_pages = 0
    /\ urls_to_scrape = << >>
    /\ m_i = 0
    /\ all_knowledge = << >>
    /\ summary = << >>
    /\ m_log = << >>

\* The converter is not running.
CypherIdle ==
    /\ cy_pc = "idle"
    /\ cy_data = << >>
    /\ cy_item = 0
    /\ all_queries = << >>
    /\ entity_counter = 0
    /\ relationship_counter = 0
    /\ cy_total_entities = 0
    /\ cy_total_relationships = 0

\* __init__ up to the call of load_free_proxies (lines 45-47).
ScraperNew ==
    /\ pc = "init"
    /\ free_proxies = << >>
    /\ current_proxy_index = 0
    /\ url = ""
    /\ max_retries = 0
    /\ attempt = 0
    /\ proxy_dict = << >>
    /\ result = << >>
    /\ sources_failed = FALSE
    /\ loaded = << >>
    /\ proxy_calls = 0
    /\ log = << >>
    /\ scrapes = 0

\* A scraper is constructed; nothing else is running.
Init ==
    /\ ScraperNew
    /\ ExtractIdle
    /\ TypeIdle
    /\ MainIdle
    /\ CypherIdle

Next ==
    \/ load_free_proxies
    \/ scrape_url
    \/ next_attempt
    \/ max_retries_exceeded
    \/ backoff
    \/ select_proxy
    \/ test_proxy
    \/ scrape_zillow_specific
    \/ scrape_linkedin_specific
    \/ scrape_amazon_specific
    \/ scrape_generic_enhanced

Spec == Init /\ [][Next]_vars

-----------------------------------------------------------------------------
(* extract_knowledge_from_text, stage by stage (lines 339-376)             *)

\* The texts extract_knowledge_from_text is called with.
TextCorpus ==
    {"123 Main St Springfield has 3 bedrooms and costs $450,000.",
     "Apple Inc. released the iPhone. The iPhone uses Bluetooth.",
     "Jane Doe works at Apple Inc. The Senior Engineer at Apple Inc sold 12 Oak St for $450,000. It sold for $450,000 by Sony and is wireless.",
     "Homes at 12 Oak St, 34 Elm Ave and 56 Pine Rd cost $100 or $200 or $300 or $400 or $500. Each has 3 beds, 2 baths, 1 garage, 900 sqft and 2 acres. Agents: Ann, Ben, Cal, Dan, Eve, Fay, Gus, Hal, Ian, Jon, Kim.",
     "Homes at 12 Oak St, 34 Elm Ave and 56 Pine Rd cost $100 or $100 or $100 or $100 or $5. Each has 3 beds, 2 baths, 1 garage, 900 sqft and 2 acres. Agents: Ann, Ben, Cal, Dan, Eve, Fay, Gus, Hal, Ian, Jon, Kim.",
     "Visit 12 Old Mill Creek Valley View Heights Garden Park Terrace Road today.",
     "Ann met Ben, Cal, Dan, Eve, Fay, Gus and Hal in Rome.",
     "Ann met Ben, Cal, Dan, Eve and Fay there. Gus saw Hal, Ian and Jon yesterday. Kim left with Lea and Max today."}

\* A scraper whose pool stayed empty, idle.
ScraperIdle ==
    /\ pc = "idle"
    /\ free_proxies = << >>
    /\ current_proxy_index = 0
    /\ url = ""
    /\ max_retries = 0
    /\ attempt = 0
    /\ proxy_dict = << >>
    /\ result = << >>
    /\ sources_failed = TRUE
    /\ loaded = << >>
    /\ proxy_calls = 0
    /\ log = << >>
    /\ scrapes = 0

\* extract_knowledge_from_text(text, source_url) is entered (lines 342-343).
InitExtract ==
    /\ ScraperIdle
    /\ ex_pc = "domain"
    /\ ex_text \in TextCorpus
    /\ ex_source_url \in Urls
    /\ ex_entities = << >>
    /\ ex_unique_entities = << >>
    /\ ex_relationships = << >>
    /\ TypeIdle
    /\ MainIdle
    /\ CypherIdle

\* One branch of the chain of lines 346-351 extends entities.
DomainEntities(found) ==
    /\ ex_pc = "domain"
    /\ ex_entities' = ex_entities \o found
    /\ ex_pc' = "general"
    /\ UNCHANGED <<ex_text, ex_source_url, ex_unique_entities, ex_relationships>>
    /\ UNCHANGED besideExtract

\* Lines 346-347.
real_estate_entities ==
    /\ UrlHas(ex_source_url, "zillow")
    /\ DomainEntities(extract_real_estate_entities(ex_text))

\* Lines 348-349.
professional_entities ==
    /\ ~UrlHas(ex_source_url, "zillow")
    /\ UrlHas(ex_source_url, "linkedin")
    /\ DomainEntities(extract_professional_entities(ex_text))

\* Lines 350-351; the set of features is iterated in some order.
product_entities ==
    /\ ~UrlHas(ex_source_url, "zillow")
    /\ ~UrlHas(ex_source_url, "linkedin")
    /\ UrlHas(ex_source_url, "amazon")
    /\ \E order \in Orders(ProductFeatureSet(ex_text)) :
          DomainEntities(extract_product_entities(ex_text, order))

\* No keyword is in the URL: the chain has no else branch.
no_domain_entities ==
    /\ ~UrlHas(ex_source_url, "zillow")
    /\ ~UrlHas(ex_source_url, "linkedin")
    /\ ~UrlHas(ex_source_url, "amazon")
    /\ DomainEntities(<< >>)

\* The general family put in front of the domain family.
general_entities_first ==
    /\ ex_pc = "general"
    /\ ex_entities' = extract_general_entities(ex_text) \o ex_entities
    /\ ex_pc' = "unique"
    /\ UNCHANGED <<ex_text, ex_source_url, ex_unique_entities, ex_relationships>>
    /\ UNCHANGED besideExtract

\* Line 354.
general_entities ==
    /\ ex_pc = "general"
    /\ ex_entities' = ex_entities \o extract_general_entities(ex_text)
    /\ ex_pc' = "unique"
    /\ UNCHANGED <<ex_text, ex_source_url, ex_unique_entities, ex_relationships>>
    /\ UNCHANGED besideExtract

\* Lines 357-364.
remove_duplicates ==
    /\ ex_pc = "unique"
    /\ ex_unique_entities' = UniqueEntities(ex_entities)
    /\ ex_pc' = "relationships"
    /\ UNCHANGED <<ex_text, ex_source_url, ex_entities, ex_relationships>>
    /\ UNCHANGED besideExtract

\* Line 367, and the return of lines 369-376.
relationships_created ==
    /\ ex_pc = "relationships"
    /\ ex_relationships' = create_enhanced_relationships(ex_unique_entities, ex_text)
    /\ ex_pc' = "done"
    /\ UNCHANGED <<ex_text, ex_source_url, ex_entities, ex_unique_entities>>
    /\ UNCHANGED besideExtract

NextExtract ==
    \/ real_estate_entities
    \/ professional_entities
    \/ product_entities
    \/ no_domain_entities
    \/ general_entities
    \/ remove_duplicates
    \/ relationships_created

SpecExtract == InitExtract /\ [][NextExtract]_vars

-----------------------------------------------------------------------------
(* Properties of scrape_url, checked under Spec                            *)

\* The positions of the events named ev in the log of the current call.
EventsOf(ev) == {i \in DOMAIN log : log[i].ev = ev}

\* scrape_url has returned a record with error = True.
ReturnedFailure == pc = "idle" /\ result # << >> /\ result[1].error

\* scrape_url has returned knowledge.
ReturnedKnowledge == pc = "idle" /\ result # << >> /\ ~result[1].error

\* C1 - Retry bound: a call scrape_url(url, max_retries = k) never starts more
\* than k attempts; when it returns a failure, every one of its attempts
\* having failed, it has made exactly k attempts, each of them having
\* obtained headers and a proxy, and the record it returns has error = True
\* and a message that is not empty.
RetryBound ==
    /\ Cardinality(EventsOf("attempt")) <= max_retries
    /\ ReturnedFailure =>
          /\ Cardinality(EventsOf("attempt")) = max_retries
          /\ \A a \in 0..(max_retries - 1) :
                /\ \E i \in EventsOf("attempt") : log[i].attempt = a
                /\ \E i \in EventsOf("headers") : log[i].attempt = a
                /\ \E i \in EventsOf("proxy") : log[i].attempt = a
          /\ result[1].error = TRUE
          /\ result[1].message # ""

\* A call with the largest max_retries, on a pool that is not empty, failed
\* in every attempt and returned.
RetryBoundReached ==
    /\ ReturnedFailure
    /\ max_retries = MaxRetries
    /\ free_proxies # << >>
    /\ Cardinality(EventsOf("attempt")) = MaxRetries
    /\ \E i \in EventsOf("probe") : log[i].arg = "failed"
    /\ EventsOf("raise") # {}

\* The category of a URL: the first of the keywords zillow, linkedin, amazon
\* that occurs in it, letter case ignored; Generic when none does.
Category(u) ==
    LET lowered == ToLower(u)
    IN IF Contains(lowered, "zillow") THEN "RealEstate"
       ELSE IF Contains(lowered, "linkedin") THEN "Professional"
       ELSE IF Contains(lowered, "amazon") THEN "Product"
       ELSE "Generic"

\* The strategy registered for each category.
Registered ==
    [RealEstate |-> "scrape_zillow_specific",
     Professional |-> "scrape_linkedin_specific",
     Product |-> "scrape_amazon_specific",
     Generic |-> "scrape_generic_enhanced"]

\* C2 - Strategy dispatch: every URL has one of the four categories; in each
\* attempt that reaches dispatch one strategy is called and no second one,
\* and it is the strategy registered for the category of the URL, so the
\* same in every attempt of the call.
StrategyDispatch ==
    /\ Category(url) \in DOMAIN Registered
    /\ \A i \in EventsOf("dispatch") :
          /\ log[i].arg = Registered[Category(url)]
          /\ \A j \in EventsOf("dispatch") : log[j].attempt = log[i].attempt => j = i
    /\ \A i \in EventsOf("raise") :
          \E j \in EventsOf("dispatch") : j < i /\ log[j].attempt = log[i].attempt
    /\ ReturnedKnowledge => EventsOf("dispatch") # {}

\* A URL that spells its keyword with capital letters was dispatched in two
\* attempts of one call.
StrategyDispatchReached ==
    /\ url = "https://www.LinkedIn.com/in/jane"
    /\ Cardinality(EventsOf("dispatch")) >= 2
    /\ \A i \in EventsOf("dispatch") : log[i].arg = "scrape_linkedin_specific"

\* C3 - Empty-pool degradation: when every proxy source failed to load, the
\* pool is empty; every get_next_proxy call returns None, no probe is run,
\* every strategy is dispatched without a proxy, and returned knowledge is
\* tagged scraping_method = enhanced_direct, proxy_used = False.
EmptyPoolDegradation ==
    sources_failed =>
       /\ free_proxies = << >>
       /\ proxy_dict = << >>
       /\ EventsOf("probe") = {}
       /\ \A i \in EventsOf("proxy") \cup EventsOf("dispatch") : log[i].proxy = ""
       /\ ReturnedKnowledge =>
             /\ result[1].scraping_method = "enhanced_direct"
             /\ result[1].proxy_used = FALSE

\* Every source failed, an attempt failed, and a later attempt fetched the
\* page directly.
EmptyPoolDegradationReached ==
    /\ sources_failed
    /\ ReturnedKnowledge
    /\ Cardinality(EventsOf("proxy")) >= 2
    /\ EventsOf("raise") # {}
    /\ result[1].scraping_method = "enhanced_direct"

\* The text by which a failed attempt is known: the message of the exception
\* the strategy raised, or the notice of the proxy found not working.
FailureText(event) ==
    IF event.ev = "raise" THEN event.arg ELSE "Proxy " \o event.proxy \o " not working"

\* The positions of the failed attempts' events in the log.
Failures == EventsOf("raise") \cup {i \in EventsOf("probe") : log[i].arg = "failed"}

\* C4 - Terminal failure message: a failure returned by scrape_url carries the
\* URL and the error message of the last failed attempt, whether that attempt
\* failed by a strategy exception or by a failed proxy probe.
TerminalFailureMessage ==
    ReturnedFailure =>
       /\ result[1].source_url = url
       /\ \A i \in Failures :
             (\A j \in Failures : j <= i) => Contains(result[1].message, FailureText(log[i]))

\* A strategy raised in one attempt, the probe failed in the last, and the
\* failure returned names neither.
TerminalFailureMessageLost ==
    /\ ReturnedFailure
    /\ EventsOf("raise") # {}
    /\ result[1].message = "Max retries exceeded"
    /\ \A i \in Failures : ~Contains(result[1].message, FailureText(log[i]))

\* C5 - Round-robin over a fixed pool: with a pool of n > 0 proxies, the j-th
\* call of get_next_proxy since the load returns the proxy at index
\* (j - 1) mod n of the pool as loaded; the cursor stays in 0..n-1; the pool
\* stays as it was loaded, whatever probes and attempts fail.
RoundRobin ==
    LET n == Len(loaded)
    IN (pc # "init" /\ n > 0) =>
          /\ free_proxies = loaded
          /\ current_proxy_index \in 0..(n - 1)
          /\ current_proxy_index = proxy_calls % n
          /\ pc \in {"probe", "dispatch"} =>
                /\ proxy_calls >= 1
                /\ proxy_dict # << >>
                /\ proxy_dict[1].http = "http://" \o loaded[((proxy_calls - 1) % n) + 1]
                /\ proxy_dict[1].https = "http://" \o loaded[((proxy_calls - 1) % n) + 1]

\* The fourth call on a pool of two proxies, after a failed probe: the
\* rotation has wrapped around.
RoundRobinReached ==
    /\ Len(loaded) = 2
    /\ proxy_calls = 4
    /\ pc = "dispatch"
    /\ current_proxy_index = 0
    /\ proxy_dict[1].http = "http://" \o loaded[2]

\* C14 - Connectivity probe: in attempt i the probe is run exactly when a
\* proxy was obtained and i < 2; a failed probe leaves the attempt with no
\* strategy dispatched and the loop goes on with i + 1 (its next attempt, or
\* the return once the attempts are used up); a working probe is followed by
\* the dispatch; from attempt 2 on the dispatch follows the proxy selection.
ConnectivityProbe ==
    /\ \A i \in EventsOf("proxy") :
          LET due == log[i].proxy # "" /\ log[i].attempt < 2
          IN IF i = Len(log)
             THEN pc = (IF due THEN "probe" ELSE "dispatch")
             ELSE /\ log[i + 1].ev = (IF due THEN "probe" ELSE "dispatch")
                  /\ log[i + 1].attempt = log[i].attempt
    /\ \A i \in EventsOf("probe") :
          /\ i > 1
          /\ log[i - 1].ev = "proxy"
          /\ log[i - 1].attempt = log[i].attempt
          /\ log[i].arg = "working" =>
                IF i = Len(log)
                THEN pc = "dispatch" /\ attempt = log[i].attempt
                ELSE log[i + 1].ev = "dispatch" /\ log[i + 1].attempt = log[i].attempt
          /\ log[i].arg = "failed" =>
                /\ \A j \in EventsOf("dispatch") : log[j].attempt # log[i].attempt
                /\ IF i = Len(log)
                   THEN pc = "for" /\ attempt = log[i].attempt + 1
                   ELSE /\ log[i + 1].attempt = log[i].attempt + 1
                        /\ log[i + 1].ev = (IF log[i].attempt + 1 < max_retries
                                            THEN "attempt" ELSE "return")

\* One call on a pool that is not empty: a probe failed, a probe worked, and
\* attempt 2 was dispatched with a proxy and without a probe.
ConnectivityProbeReached ==
    /\ \E i, j \in EventsOf("probe") :
          /\ log[i].arg = "failed"
          /\ log[j].arg = "working"
          /\ log[i].attempt < log[j].attempt
    /\ \E d \in EventsOf("dispatch") :
          /\ log[d].attempt = 2
          /\ log[d].proxy # ""
          /\ log[d - 1].ev = "proxy"

\* C15 - Backoff ordering: no sleep in attempt 0; in every attempt i > 0 one
\* sleep, right after the attempt is taken and so before its headers, proxy
\* selection, probe and dispatch, whether attempt i - 1 ended by an exception
\* or by a failed probe; the attempts of a call follow one another in order.
BackoffOrdering ==
    /\ \A i \in EventsOf("sleep") :
          /\ log[i].attempt > 0
          /\ i > 1
          /\ log[i - 1].ev = "attempt"
          /\ log[i - 1].attempt = log[i].attempt
    /\ \A i \in EventsOf("attempt") :
          /\ IF log[i].attempt > 0
             THEN IF i = Len(log) THEN pc = "sleep" ELSE log[i + 1].ev = "sleep"
             ELSE IF i = Len(log) THEN pc = "select" ELSE log[i + 1].ev = "headers"
          /\ \A j \in EventsOf("attempt") : log[j].attempt = log[i].attempt => j = i
          /\ log[i].attempt > 0 =>
                /\ i > 1
                /\ log[i - 1].attempt = log[i].attempt - 1
                /\ log[i - 1].ev \in {"raise", "probe"}
    /\ \A i \in EventsOf("headers") \cup EventsOf("proxy")
                   \cup EventsOf("probe") \cup EventsOf("dispatch") :
          log[i].attempt > 0 =>
             Cardinality({j \in EventsOf("sleep") :
                             j < i /\ log[j].attempt = log[i].attempt}) = 1
    /\ \A i, j \in DOMAIN log : i < j => log[i].attempt <= log[j].attempt

\* One call slept before attempt 1, which followed a failed probe, and before
\* attempt 2, which followed an exception, and dispatched attempt 2.
BackoffOrderingReached ==
    /\ Cardinality(EventsOf("sleep")) = 2
    /\ \E i \in EventsOf("probe") : log[i].arg = "failed" /\ log[i].attempt = 0
    /\ \E i \in EventsOf("raise") : log[i].attempt = 1
    /\ \E i \in EventsOf("dispatch") : log[i].attempt = 2

\* C20 - Early return on success: a dispatch either raises or is followed by
\* the return of a success record; the record has error = False and the
\* URL of the call, it comes from the first attempt whose dispatch does not
\* raise, nothing follows it in the call, and its proxy_used is True exactly
\* when that attempt obtained a proxy.
EarlyReturn ==
    /\ \A d \in EventsOf("dispatch") :
          /\ d < Len(log)
          /\ log[d + 1].ev \in {"raise", "return"}
          /\ log[d + 1].ev = "return" => d + 1 = Len(log) /\ ReturnedKnowledge
    /\ \A r \in EventsOf("return") : r = Len(log) /\ pc = "idle"
    /\ ReturnedKnowledge =>
          LET n == Len(log)
          IN /\ result[1].error = FALSE
             /\ result[1].source_url = url
             /\ n >= 2
             /\ log[n].ev = "return"
             /\ log[n - 1].ev = "dispatch"
             /\ log[n - 1].attempt = log[n].attempt
             /\ \A d \in EventsOf("dispatch") : d # n - 1 => log[d + 1].ev = "raise"
             /\ result[1].proxy_used =
                   (\E q \in EventsOf("proxy") :
                       log[q].attempt = log[n].attempt /\ log[q].proxy # "")

\* A call returned knowledge fetched through a proxy in an attempt that was
\* neither its first nor its last possible one.
EarlyReturnReached ==
    /\ ReturnedKnowledge
    /\ result[1].proxy_used
    /\ EventsOf("raise") # {}
    /\ log[Len(log)].attempt = 1
    /\ max_retries = 3

\* The attempts of the current call that were left after a failed probe.
Abandoned == {p \in EventsOf("probe") : log[p].arg = "failed"}

\* Failed probes and dispatches share the budget of the call; a failed probe
\* follows the selection of a proxy in the same, early, attempt; a terminal
\* failure without any request to the URL comes from failed probes alone.
ProbeCounts ==
    /\ Cardinality(Abandoned) + Cardinality(EventsOf("dispatch")) <= max_retries
    /\ Cardinality(Abandoned) + Cardinality(EventsOf("dispatch"))
          <= Cardinality(EventsOf("attempt"))
    /\ \A p \in Abandoned :
          /\ p > 1
          /\ log[p - 1].ev = "proxy"
          /\ log[p - 1].proxy # ""
          /\ log[p - 1].attempt = log[p].attempt
          /\ log[p].attempt < ProbeAttempts
          /\ free_proxies # << >>
          /\ \A q \in EventsOf("dispatch") : log[q].attempt # log[p].attempt
    /\ (ReturnedFailure /\ EventsOf("dispatch") = {}) =>
          /\ free_proxies # << >>
          /\ max_retries <= ProbeAttempts
          /\ Cardinality(Abandoned) = max_retries
          /\ result[1].message = "Max retries exceeded"

\* The selection that leads to a probe moves the cursor to the next place of
\* the pool, and the probe leaves it there.
CursorAdvance ==
    /\ (pc = "select" /\ pc' = "probe") =>
          /\ free_proxies # << >>
          /\ current_proxy_index' = (current_proxy_index + 1) % Len(free_proxies)
    /\ pc = "probe" =>
          /\ current_proxy_index' = current_proxy_index
          /\ pc' = "for" => attempt' = attempt + 1

\* C21 - Probe failures count against the budget: in a call
\* scrape_url(url, max_retries = k) the attempts abandoned after a failed
\* probe and the strategy dispatches number at most k together, and each
\* abandoned attempt has moved the pool cursor on by one place; so with a
\* non-empty pool and k <= 2 a call can end in a terminal failure without a
\* single request to the URL.
ProbeBudget == []ProbeCounts /\ [][CursorAdvance]_vars

\* A call with k = 2 on a pool of two or more proxies has ended in a terminal
\* failure after two failed probes and no dispatch, the cursor two places on.
ProbeBudgetReached ==
    /\ ReturnedFailure
    /\ max_retries = 2
    /\ Len(free_proxies) >= 2
    /\ Cardinality(Abandoned) = 2
    /\ EventsOf("dispatch") = {}
    /\ \E p \in Abandoned, q \in Abandoned :
          p < q /\ log[p - 1].proxy # "" /\ log[q - 1].proxy \notin {"", log[p - 1].proxy}
    /\ result[1].message = "Max retries exceeded"

-----------------------------------------------------------------------------
(* Properties of extract_knowledge_from_text, checked under SpecExtract    *)

\* unique_entities has been built.
UniqueBuilt == ex_pc \in {"relationships", "done"}

\* The names of a list of entities.
NamesOf(es) == {es[k].name : k \in DOMAIN es}

\* The entities of unique_entities that occur in the first sentence.
FirstSentenceEntities ==
    SentenceEntities(ex_unique_entities, Strip(Sentences(ex_text)[1]))

\* C6 - Relationship cap: create_enhanced_relationships returns at most 20
\* relationships, also when one sentence holds entities enough for more than
\* 20 pairs and the limit is reached in the middle of the pairs of a sentence.
RelationshipCap == Len(ex_relationships) <= RelationshipLimit

\* One sentence with more than 20 pairs of entities: the limit was reached
\* among the pairs of one entity, after some of them and before the others.
RelationshipCapReached ==
    /\ ex_pc = "done"
    /\ Len(ex_relationships) = RelationshipLimit
    /\ Len(FirstSentenceEntities) * (Len(FirstSentenceEntities) - 1) > 2 * RelationshipLimit
    /\ LET last == ex_relationships[RelationshipLimit]
           before == ex_relationships[RelationshipLimit - 1]
       IN /\ before.entity1.name = last.entity1.name
          /\ \E a, b, c \in DOMAIN FirstSentenceEntities :
                /\ a < b /\ b < c
                /\ FirstSentenceEntities[a].name = last.entity1.name
                /\ FirstSentenceEntities[b].name = last.entity2.name
                /\ \A r \in DOMAIN ex_relationships :
                      ex_relationships[r].entity2.name # FirstSentenceEntities[c].name
                      \/ ex_relationships[r].entity1.name # last.entity1.name

\* The names a candidate list offers to the loop that removes duplicates:
\* those longer than MinNameLen.
OfferedNames(es) == {name \in NamesOf(es) : Len(name) > MinNameLen}

\* C7, as stated - Entity cap: more than 25 candidate entities yield exactly
\* 25 entities, and no input yields more than 25.
EntityCapOfCandidates ==
    UniqueBuilt =>
       /\ Len(ex_unique_entities) <= EntityLimit
       /\ Len(ex_entities) > EntityLimit => Len(ex_unique_entities) = EntityLimit

\* C7, amended - Entity cap: no input yields more than 25 entities; candidates
\* that carry at least 25 distinct names longer than two characters yield
\* exactly 25, fewer such names yield one entity for each.
EntityCap ==
    /\ Len(ex_unique_entities) <= EntityLimit
    /\ UniqueBuilt =>
          IF Cardinality(OfferedNames(ex_entities)) >= EntityLimit
          THEN Len(ex_unique_entities) = EntityLimit
          ELSE Len(ex_unique_entities) = Cardinality(OfferedNames(ex_entities))

\* More than 25 candidates with more than 25 distinct names were cut to 25.
EntityCapReached ==
    /\ UniqueBuilt
    /\ Len(ex_entities) > EntityLimit
    /\ Cardinality(OfferedNames(ex_entities)) > EntityLimit
    /\ Len(ex_unique_entities) = EntityLimit

\* C8 - Entity deduplication: the names of the entities returned are pairwise
\* distinct, also when a name comes from a domain pattern and from a general
\* pattern, or several times from one family of patterns.
EntityNamesDistinct ==
    \A i, j \in DOMAIN ex_unique_entities :
        ex_unique_entities[i].name = ex_unique_entities[j].name => i = j

\* One name came twice from one family of patterns and once more from
\* another family, and the duplicates have been removed.
EntityNamesDistinctReached ==
    /\ UniqueBuilt
    /\ \E i, j, k \in DOMAIN ex_entities :
          /\ i < j /\ j < k
          /\ ex_entities[i].name = ex_entities[j].name
          /\ ex_entities[j].name = ex_entities[k].name
          /\ ex_entities[i].description = ex_entities[j].description
          /\ ex_entities[j].description # ex_entities[k].description
          /\ Cardinality({m \in DOMAIN ex_unique_entities :
                             ex_unique_entities[m].name = ex_entities[i].name}) = 1

\* C9 - Entity name bound: every entity returned has a name of 3 to 49
\* characters, whichever family of patterns produced it.
EntityNameBound ==
    \A k \in DOMAIN ex_unique_entities :
        Len(ex_unique_entities[k].name) \in 3..49

\* An address of more than 49 characters is among the entities returned.
EntityNameTooLong ==
    /\ ex_pc = "done"
    /\ \E k \in DOMAIN ex_unique_entities :
          /\ Len(ex_unique_entities[k].name) > 49
          /\ ex_unique_entities[k].description
                = "Property address: " \o ex_unique_entities[k].name

\* The text of the real estate scenario.
ScenarioText == "123 Main St Springfield has 3 bedrooms and costs $450,000."

\* The scenario has been extracted as real estate.
ScenarioDone ==
    ex_pc = "done" /\ ex_text = ScenarioText /\ UrlHas(ex_source_url, "zillow")

\* C10 - RealEstate scenario: the entities extracted from the scenario text
\* include an address-shaped term, "$450,000" and "3 bedrooms", and the
\* relationships include a PRICED_AT relationship with "$450,000" at one end.
RealEstateScenario ==
    ScenarioDone =>
       /\ \E name \in NamesOf(ex_unique_entities) : AddressEnd(name, 1) = Len(name) + 1
       /\ "$450,000" \in NamesOf(ex_unique_entities)
       /\ "3 bedrooms" \in NamesOf(ex_unique_entities)
       /\ \E r \in DOMAIN ex_relationships :
             /\ ex_relationships[r].relation_type = "PRICED_AT"
             /\ "$450,000" \in {ex_relationships[r].entity1.name,
                                ex_relationships[r].entity2.name}

\* What the scenario yields: "3 bedroom" and no "3 bedrooms", and no
\* relationship other than LOCATED_AT.
RealEstateScenarioYield ==
    /\ ScenarioDone
    /\ "$450,000" \in NamesOf(ex_unique_entities)
    /\ "123 Main St" \in NamesOf(ex_unique_entities)
    /\ "3 bedroom" \in NamesOf(ex_unique_entities)
    /\ "3 bedrooms" \notin NamesOf(ex_unique_entities)
    /\ ex_relationships # << >>
    /\ \A r \in DOMAIN ex_relationships : ex_relationships[r].relation_type = "LOCATED_AT"

\* The sentences create_enhanced_relationships retains: of the first 100
\* pieces of the text, stripped, those of at least 20 characters.
RetainedSentences(text) ==
    LET pieces == Take(Sentences(text), 100)
    IN SelectSeq([k \in DOMAIN pieces |-> Strip(pieces[k])], LAMBDA s : Len(s) >= 20)

\* The pairs (i, j), i < j, of positions in entities of two entities whose
\* names both occur in the sentence, letter case ignored; in the order of
\* i, then of j.
PairsIn(entities, sentence) ==
    LET low  == ToLower(sentence)
        here == {k \in DOMAIN entities : Contains(low, ToLower(entities[k].name))}
        P    == {p \in here \X here : p[1] < p[2]}
        rank(p) == Cardinality({q \in P : q[1] < p[1] \/ (q[1] = p[1] /\ q[2] <= p[2])})
    IN [r \in 1..Cardinality(P) |-> CHOOSE p \in P : rank(p) = r]

\* One pair of each sentence after the other: what is to be emitted when no
\* cap cuts it, as (sentence, entity1, entity2).
RECURSIVE PairsFrom(_, _, _)
PairsFrom(entities, sentences, k) ==
    IF k > Len(sentences) THEN << >>
    ELSE LET P == PairsIn(entities, sentences[k])
         IN [r \in DOMAIN P |-> [sentence |-> sentences[k],
                                 entity1 |-> entities[P[r][1]].name,
                                 entity2 |-> entities[P[r][2]].name]]
            \o PairsFrom(entities, sentences, k + 1)

\* The pairs due for the text and the entities of the extraction at hand.
PairsDue == PairsFrom(ex_unique_entities, RetainedSentences(ex_text), 1)

\* C17 - Pair emission: the relationships returned are, one for one and up to
\* the cap of 20, the pairs of entities that occur together in a retained
\* sentence, sentence after sentence, entity1 the earlier and entity2 the
\* later of the two in the entities list; there is no self-pair and no
\* reversed pair, and every endpoint is the name of an entity passed in.
PairEmission ==
    ex_pc = "done" =>
       /\ Len(ex_relationships) = Min({20, Len(PairsDue)})
       /\ \A r \in DOMAIN ex_relationships :
             /\ ex_relationships[r].entity1.name = PairsDue[r].entity1
             /\ ex_relationships[r].entity2.name = PairsDue[r].entity2
             /\ ex_relationships[r].description
                   = "Relationship found: " \o Take(PairsDue[r].sentence, 150) \o "..."
             /\ ex_relationships[r].entity1.name # ex_relationships[r].entity2.name
             /\ ex_relationships[r].entity1.name \in NamesOf(ex_unique_entities)
             /\ ex_relationships[r].entity2.name \in NamesOf(ex_unique_entities)
             /\ \A q \in DOMAIN ex_relationships :
                   ~ /\ ex_relationships[q].entity1.name = ex_relationships[r].entity2.name
                     /\ ex_relationships[q].entity2.name = ex_relationships[r].entity1.name

\* Below the cap, two sentences gave pairs, one of them the three pairs of
\* three entities.
PairEmissionReached ==
    /\ ex_pc = "done"
    /\ Len(ex_relationships) < RelationshipLimit
    /\ Len(ex_relationships) = Len(PairsDue)
    /\ \E a, b, c \in DOMAIN ex_relationships :
          /\ a < b /\ b < c
          /\ ex_relationships[a].description = ex_relationships[c].description
          /\ ex_relationships[a].entity1.name = ex_relationships[b].entity1.name
          /\ ex_relationships[b].entity2.name = ex_relationships[c].entity2.name
          /\ ex_relationships[a].entity2.name = ex_relationships[c].entity1.name
    /\ \E a, b \in DOMAIN ex_relationships :
          ex_relationships[a].description # ex_relationships[b].description

\* The URL of the extraction at hand has a category other than Generic.
NonGeneric == Category(ex_source_url) # "Generic"

\* The matches of the general family in the text at hand, and the matches
\* of the category's family: the candidates in front of them.
GeneralOf == [t \in TextCorpus |-> extract_general_entities(t)]

GeneralMatches == GeneralOf[ex_text]

CategoryMatches == SubSeq(ex_entities, 1, Len(ex_entities) - Len(GeneralMatches))

\* The first entity of a list that has the name.
FirstNamed(es, name) == es[Min({k \in DOMAIN es : es[k].name = name})]

\* C19, as stated - Entity order: for a category other than Generic the
\* entities returned hold the general-pattern matches first and the matches
\* of the category alone after them, and a name matched by both families is
\* kept with its general-pattern description.
EntityOrderGeneralFirst ==
    (UniqueBuilt /\ NonGeneric) =>
       /\ \A i, j \in DOMAIN ex_unique_entities :
             (/\ ex_unique_entities[i].name \in NamesOf(GeneralMatches)
              /\ ex_unique_entities[j].name \notin NamesOf(GeneralMatches)) => i < j
       /\ \A k \in DOMAIN ex_unique_entities :
             ex_unique_entities[k].name \in NamesOf(GeneralMatches) =>
                ex_unique_entities[k]
                   = FirstNamed(GeneralMatches, ex_unique_entities[k].name)

\* C19, amended - Entity order: for a category other than Generic the
\* entities returned hold the matches of the category first and the matches
\* of the general family alone after them; each is the first match of its
\* name, and a name matched by both families is kept with the description
\* its category gives it.
EntityOrder ==
    (UniqueBuilt /\ NonGeneric) =>
       /\ \A i, j \in DOMAIN ex_unique_entities :
             (/\ ex_unique_entities[i].name \in NamesOf(CategoryMatches)
              /\ ex_unique_entities[j].name \notin NamesOf(CategoryMatches)) => i < j
       /\ \A k \in DOMAIN ex_unique_entities :
             IF ex_unique_entities[k].name \in NamesOf(CategoryMatches)
             THEN ex_unique_entities[k]
                     = FirstNamed(CategoryMatches, ex_unique_entities[k].name)
             ELSE /\ ex_unique_entities[k].name \in NamesOf(GeneralMatches)
                  /\ ex_unique_entities[k]
                        = FirstNamed(GeneralMatches, ex_unique_entities[k].name)

\* A name matched by both families, with two descriptions, was kept with the
\* description of its category, in front of a match of the general family
\* alone; another match of the category has no general match.
EntityOrderReached ==
    /\ UniqueBuilt
    /\ NonGeneric
    /\ \E i, j, k \in DOMAIN ex_unique_entities :
          /\ i < j
          /\ ex_unique_entities[i].name \in NamesOf(CategoryMatches)
          /\ ex_unique_entities[i].name \in NamesOf(GeneralMatches)
          /\ FirstNamed(GeneralMatches, ex_unique_entities[i].name) # ex_unique_entities[i]
          /\ ex_unique_entities[j].name \notin NamesOf(CategoryMatches)
          /\ ex_unique_entities[k].name \notin NamesOf(GeneralMatches)

-----------------------------------------------------------------------------
(* determine_enhanced_relationship_type, called on its own                 *)

\* Words a sentence is put together from: one cue of each bucket and no cue.
FirstWords ==
    {"", "near", "owned by", "manager of", "made by", "costs", "uses",
     "produces", "part of", "like", "connects"}

\* Every cue of the source, some in capital letters, and no cue.
SecondWords ==
    {"", "located", "in", "at", "near", "address",
     "owns", "belongs to", "property of", "owned by",
     "works at", "employed by", "ceo of", "manager of",
     "manufactured by", "made by", "brand",
     "costs", "priced at", "$", "price",
     "uses", "implements", "utilizes",
     "creates", "generates", "produces",
     "part of", "component of",
     "similar to", "like", "comparable",
     "works with", "integrates", "connects",
     "OWNS", "Made By", "USES", "Part Of", "LIKE", "Connects", "PRODUCES"}

\* The sentences the function is called with.
TypeSentences ==
    {"Acme " \o a \o " then " \o b \o " Widget" : a \in FirstWords, b \in SecondWords}

\* The pairs of entity names it is called with; those of the second pair
\* hold cues themselves.
TypePairs == {<<"Acme", "Widget">>, <<"Brand Inc", "Paris Price">>}

\* determine_enhanced_relationship_type(sentence, entity1, entity2) is called.
InitType ==
    /\ ScraperIdle
    /\ ExtractIdle
    /\ MainIdle
    /\ CypherIdle
    /\ rt_pc = "call"
    /\ rt_sentence \in TypeSentences
    /\ \E names \in TypePairs :
          /\ rt_entity1 = names[1]
          /\ rt_entity2 = names[2]
    /\ rt_type = ""

\* The call returns (lines 518-554).
relationship_type_determined ==
    /\ rt_pc = "call"
    /\ rt_type' = determine_enhanced_relationship_type(rt_sentence, rt_entity1, rt_entity2)
    /\ rt_pc' = "done"
    /\ UNCHANGED <<rt_sentence, rt_entity1, rt_entity2>>
    /\ UNCHANGED <<scraperVars, extractVars, mainVars, cypherVars>>

NextType == relationship_type_determined

SpecType == InitType /\ [][NextType]_vars

-----------------------------------------------------------------------------
(* Properties of determine_enhanced_relationship_type, under SpecType      *)

\* The buckets in their order of priority, each with its type and its cues.
Buckets ==
    <<[type |-> "LOCATED_AT", cues |-> {"located", "in", "at", "near", "address"}],
      [type |-> "OWNS", cues |-> {"owns", "belongs to", "property of", "owned by"}],
      [type |-> "EMPLOYED_BY", cues |-> {"works at", "employed by", "ceo of", "manager of"}],
      [type |-> "MANUFACTURED_BY", cues |-> {"manufactured by", "made by", "brand"}],
      [type |-> "PRICED_AT", cues |-> {"costs", "priced at", "$", "price"}],
      [type |-> "USES", cues |-> {"uses", "implements", "utilizes"}],
      [type |-> "CREATES", cues |-> {"creates", "generates", "produces"}],
      [type |-> "PART_OF", cues |-> {"part of", "component of", "belongs to"}],
      [type |-> "SIMILAR_TO", cues |-> {"similar to", "like", "comparable"}],
      [type |-> "INTEGRATES_WITH", cues |-> {"works with", "integrates", "connects"}]>>

\* The buckets one of whose cues occurs in the sentence, letter case ignored.
BucketsHit(sentence) ==
    {b \in DOMAIN Buckets : \E cue \in Buckets[b].cues : Contains(ToLower(sentence), cue)}

\* C18 - Relation-type priority: the type returned is that of the first
\* bucket, in the fixed order, one of whose cues occurs in the lower-cased
\* sentence, and RELATED_TO exactly when no cue of any bucket occurs; cues in
\* the entity names alone do not count.
RelationTypePriority ==
    rt_pc = "done" =>
       /\ BucketsHit(rt_sentence) # {} =>
             rt_type = Buckets[Min(BucketsHit(rt_sentence))].type
       /\ rt_type = "RELATED_TO" <=> BucketsHit(rt_sentence) = {}

\* A sentence with cues of two buckets, the later bucket's cue coming first
\* in the sentence and written in capitals, got the type of the earlier
\* bucket, for entity names that hold cues of still earlier buckets.
RelationTypePriorityReached ==
    /\ rt_pc = "done"
    /\ rt_sentence = "Acme uses then Made By Widget"
    /\ rt_entity1 = "Brand Inc"
    /\ rt_type = "MANUFACTURED_BY"

-----------------------------------------------------------------------------
(* main (lines 598-675)                                                    *)

\* The largest MAX_PAGES of a run.
MaxPages == 2

\* max_retries of scrape_url when the caller names none (line 132).
DefaultMaxRetries == 5

\* START_URL and EXTRACT_TYPE of a run.
StartUrls ==
    {"https://www.zillow.com/homes/",
     "https://www.linkedin.com/company/Amazon",
     "https://www.amazon.com/dp/B01"}

ExtractTypes == {"entities_relationships", "text_only"}

\* What find_links can return for the start page: nothing (also when its
\* request fails, line 596), or a link that matches one of its patterns.
FoundLinks == {<< >>, <<"https://example.org/about">>}

\* seq[:n] of Python, n negative included.
SliceTo(seq, n) ==
    IF n >= 0 THEN Take(seq, n)
    ELSE IF Len(seq) + n > 0 THEN Take(seq, Len(seq) + n) ELSE << >>

\* k.get(field, default)
Get(k, field, default) == IF field \in DOMAIN k THEN k[field] ELSE default

MainEvent(ev, index) == [ev |-> ev, i |-> index]

\* The run is set up: the environment holds its configuration, and main
\* constructs the scraper (line 600).
InitMain ==
    /\ ScraperNew
    /\ ExtractIdle
    /\ TypeIdle
    /\ CypherIdle
    /\ m_pc = "scraper"
    /\ start_url \in StartUrls
    /\ extract_type \in ExtractTypes
    /\ max_pages \in {1, MaxPages}
    /\ urls_to_scrape = << >>
    /\ m_i = 0
    /\ all_knowledge = << >>
    /\ summary = << >>
    /\ m_log = << >>

\* Lines 603-615, after the scraper is constructed: the configuration is
\* read and the list of URLs starts with the start URL.
main_configure ==
    /\ m_pc = "scraper"
    /\ pc = "idle"
    /\ urls_to_scrape' = <<start_url>>
    /\ all_knowledge' = << >>
    /\ m_pc' = "links"
    /\ UNCHANGED <<start_url, extract_type, max_pages, m_i, summary, m_log>>
    /\ UNCHANGED <<scraperVars, extractVars, typeVars, cypherVars>>

\* Lines 618-621: for two of the extract types the links of the start page
\* are looked up and the first max_pages - 1 of them are added.
find_links ==
    /\ m_pc = "links"
    /\ IF extract_type \in {"entities_relationships", "links_only"}
       THEN \E additional_links \in FoundLinks :
               urls_to_scrape' = urls_to_scrape \o SliceTo(additional_links, max_pages - 1)
       ELSE UNCHANGED urls_to_scrape
    /\ m_i' = 0
    /\ m_pc' = "loop"
    /\ UNCHANGED <<start_url, extract_type, max_pages, all_knowledge, summary, m_log>>
    /\ UNCHANGED <<scraperVars, extractVars, typeVars, cypherVars>>

\* The loop of line 624 has another URL: scraper.scrape_url(url) is called
\* with the default max_retries (line 627).
main_scrape_url ==
    /\ m_pc = "loop"
    /\ m_i < Len(SliceTo(urls_to_scrape, max_pages))
    /\ Entered(SliceTo(urls_to_scrape, max_pages)[m_i + 1], DefaultMaxRetries)
    /\ m_log' = Append(m_log, MainEvent("fetch", m_i))
    /\ m_pc' = "scraping"
    /\ UNCHANGED <<start_url, extract_type, max_pages, urls_to_scrape, m_i, all_knowledge,
                   summary>>
    /\ UNCHANGED <<extractVars, typeVars, cypherVars>>

\* A delay after every URL, the last one included.
DelayDueAlways(index, urls) == index < Len(urls)

\* if i < len(urls_to_scrape) - 1 (line 631).
DelayDue(index, urls) == index < Len(urls) - 1

\* scrape_url has returned: its record is appended (line 628).
main_append ==
    /\ m_pc = "scraping"
    /\ pc = "idle"
    /\ result # << >>
    /\ all_knowledge' = Append(all_knowledge, result[1])
    /\ m_log' = Append(m_log, MainEvent("return", m_i))
    /\ IF DelayDue(m_i, urls_to_scrape)
       THEN m_pc' = "delay" /\ UNCHANGED m_i
       ELSE m_pc' = "loop" /\ m_i' = m_i + 1
    /\ UNCHANGED <<start_url, extract_type, max_pages, urls_to_scrape, summary>>
    /\ UNCHANGED <<scraperVars, extractVars, typeVars, cypherVars>>

\* time.sleep(random.uniform(3, 7)) (lines 632-634).
main_delay ==
    /\ m_pc = "delay"
    /\ m_log' = Append(m_log, MainEvent("delay", m_i))
    /\ m_i' = m_i + 1
    /\ m_pc' = "loop"
    /\ UNCHANGED <<start_url, extract_type, max_pages, urls_to_scrape, all_knowledge, summary>>
    /\ UNCHANGED <<scraperVars, extractVars, typeVars, cypherVars>>

\* Every record counts as a success: the test on error left out.
SucceededAny(k) == TRUE

\* not k.get("error")
Succeeded(k) == Get(k, "error", FALSE) = FALSE

\* sum(len(k.get(field, [])) for k in records if not k.get("error")), from
\* record j on.
RECURSIVE SumOf(_, _, _)
SumOf(records, field, j) ==
    IF j > Len(records) THEN 0
    ELSE (IF Succeeded(records[j]) THEN Len(Get(records[j], field, << >>)) ELSE 0)
         + SumOf(records, field, j + 1)

\* The summary of lines 644-663; the time stamp and the name of the output
\* file, which carries the time stamp, are left out.
Summary ==
    [pipeline_status |-> "completed",
     start_url |-> start_url,
     extract_type |-> extract_type,
     urls_processed |-> Len(urls_to_scrape),
     successful_scrapes |-> Len(SelectSeq(all_knowledge, Succeeded)),
     failed_scrapes |-> Len(SelectSeq(all_knowledge, LAMBDA k : ~Succeeded(k))),
     total_entities |-> SumOf(all_knowledge, "entities", 1),
     total_relationships |-> SumOf(all_knowledge, "relationships", 1),
     scraping_method |-> "enhanced_anti_detection",
     data |-> all_knowledge]

\* The loop is exhausted: the records are saved, the summary is built,
\* saved and returned (lines 636-675).
main_summary ==
    /\ m_pc = "loop"
    /\ m_i >= Len(SliceTo(urls_to_scrape, max_pages))
    /\ summary' = Some(Summary)
    /\ m_pc' = "done"
    /\ UNCHANGED <<start_url, extract_type, max_pages, urls_to_scrape, m_i, all_knowledge,
                   m_log>>
    /\ UNCHANGED <<scraperVars, extractVars, typeVars, cypherVars>>

\* The steps of a run.  (Line 185 is not among them: with five attempts the
\* last one has no probe, so it returns from line 174 or from line 179.)
NextMain ==
    \/ load_free_proxies
    \/ main_configure
    \/ find_links
    \/ main_scrape_url
    \/ next_attempt
    \/ backoff
    \/ select_proxy
    \/ test_proxy
    \/ scrape_zillow_specific
    \/ scrape_linkedin_specific
    \/ scrape_amazon_specific
    \/ scrape_generic_enhanced
    \/ main_append
    \/ main_delay
    \/ main_summary

\* main runs on: every call it makes returns, every sleep ends.
SpecMain == InitMain /\ [][NextMain]_vars /\ WF_vars(NextMain)

-----------------------------------------------------------------------------
(* Claims about main                                                       *)

\* The URLs the loop of line 624 goes through.
Processed == SliceTo(urls_to_scrape, max_pages)

\* The fetch of the URL scraped last has failed: each of its attempts raised.
FetchFailed == Cardinality(EventsOf("raise")) = max_retries

\* A record with error = True and a message.
ErrorRecord(k) ==
    /\ Get(k, "error", FALSE) = TRUE
    /\ Get(k, "message", "") # ""

\* Between the return of a scrape_url call and the next call, the record
\* appended last is the one the call returned, for the URL it was given; it
\* is an error record if the fetch failed.
RecordOfFetch ==
    (m_pc \in {"delay", "loop", "done"} /\ all_knowledge # << >>) =>
        LET record == all_knowledge[Len(all_knowledge)]
        IN /\ pc = "idle"
           /\ result = Some(record)
           /\ record.source_url = url
           /\ url = Processed[Len(all_knowledge)]
           /\ FetchFailed => ErrorRecord(record)

\* The summary holds one record for each URL processed, in their order.
RunRecords ==
    /\ summary # << >>
    /\ summary[1].data = all_knowledge
    /\ Len(summary[1].data) = Len(Processed)
    /\ \A j \in DOMAIN Processed :
          /\ summary[1].data[j].source_url = Processed[j]
          /\ summary[1].data[j].error => ErrorRecord(summary[1].data[j])

\* A record, once appended, stays as it is.
RecordsKept ==
    /\ Len(all_knowledge') >= Len(all_knowledge)
    /\ \A j \in DOMAIN all_knowledge : all_knowledge'[j] = all_knowledge[j]

\* C11 - Run completion: whatever fetches, probes and parses fail, a run of
\* main ends with a summary that holds exactly one record for each URL
\* processed; a URL whose fetch fails is there as a record with error = true
\* and a message, and the URLs after it are processed all the same.
RunCompletion ==
    /\ []RecordOfFetch
    /\ [][RecordsKept]_vars
    /\ [](m_pc = "done" => RunRecords)
    /\ <>(m_pc = "done")

\* A run has ended whose first URL failed and whose second URL was scraped.
RunCompletionReached ==
    /\ m_pc = "done"
    /\ RunRecords
    /\ Len(summary[1].data) = 2
    /\ ErrorRecord(summary[1].data[1])
    /\ ~summary[1].data[2].error

\* The positions of the records that are not error records.
NonError(data) == {j \in DOMAIN data : Get(data[j], "error", FALSE) = FALSE}

\* One element for each entry of the list under field in a non-error record.
Slots(data, field) ==
    UNION {{<<j, n>> : n \in DOMAIN Get(data[j], field, << >>)} : j \in NonError(data)}

\* C12 - Run summary fold: in the summary of main, total_entities and
\* total_relationships are the summed lengths of the entity and relationship
\* lists of the non-error records, successful_scrapes and failed_scrapes
\* count the non-error and the error records, and their sum is the number of
\* records, which is urls_processed (max_pages >= 1).
RunSummaryFold ==
    m_pc = "done" =>
        /\ summary # << >>
        /\ summary[1].data = all_knowledge
        /\ summary[1].total_entities = Cardinality(Slots(summary[1].data, "entities"))
        /\ summary[1].total_relationships =
              Cardinality(Slots(summary[1].data, "relationships"))
        /\ summary[1].successful_scrapes = Cardinality(NonError(summary[1].data))
        /\ summary[1].failed_scrapes =
              Cardinality(DOMAIN summary[1].data \ NonError(summary[1].data))
        /\ summary[1].successful_scrapes + summary[1].failed_scrapes
              = Len(summary[1].data)
        /\ Len(summary[1].data) = summary[1].urls_processed

\* A summary over an error record and a record with entities and
\* relationships.
RunSummaryFoldReached ==
    /\ m_pc = "done"
    /\ summary # << >>
    /\ summary[1].urls_processed = 2
    /\ summary[1].failed_scrapes = 1
    /\ summary[1].successful_scrapes = 1
    /\ summary[1].total_entities > 1
    /\ summary[1].total_relationships > 0

\* The positions of main's events named ev, before position p.
MainEventsBefore(ev, p) == {q \in 1..(p - 1) : m_log[q].ev = ev}

MainEvents(ev) == MainEventsBefore(ev, Len(m_log) + 1)

\* C16 - Inter-URL delay: within a run of main the URLs are fetched one after
\* another, the fetch of a URL starting only after the fetch of the one
\* before it has returned; between the fetches of two consecutive URLs there
\* is exactly one delay, and there is no delay after the last URL of the run.
InterUrlDelay ==
    /\ \A p \in MainEvents("fetch") :
          /\ m_log[p].i = Cardinality(MainEventsBefore("fetch", p))
          /\ Cardinality(MainEventsBefore("return", p)) = m_log[p].i
          /\ \A q \in MainEventsBefore("return", p) : m_log[q].i < m_log[p].i
    /\ \A p \in MainEvents("return") : p > 1 /\ m_log[p - 1] = MainEvent("fetch", m_log[p].i)
    /\ \A p \in MainEvents("fetch"), q \in MainEvents("fetch") :
          m_log[q].i = m_log[p].i + 1 =>
              Cardinality({d \in MainEvents("delay") : p < d /\ d < q}) = 1
    /\ \A d \in MainEvents("delay") :
          /\ d > 1 /\ m_log[d - 1] = MainEvent("return", m_log[d].i)
          /\ m_log[d].i < Len(Processed) - 1
    /\ pc \notin {"init", "idle"} =>
          /\ m_pc = "scraping"
          /\ m_log # << >>
          /\ m_log[Len(m_log)] = MainEvent("fetch", m_i)
          /\ url = Processed[m_i + 1]
    /\ m_pc = "done" =>
          /\ Cardinality(MainEvents("fetch")) = Len(Processed)
          /\ m_log # << >>
          /\ m_log[Len(m_log)] = MainEvent("return", Len(Processed) - 1)

\* A run over two URLs has ended: one delay, between the two fetches.
InterUrlDelayReached ==
    /\ m_pc = "done"
    /\ Len(Processed) = 2
    /\ Cardinality(MainEvents("delay")) = 1
    /\ [q \in DOMAIN m_log |-> m_log[q].ev] = <<"fetch", "return", "delay", "fetch", "return">>

-----------------------------------------------------------------------------
(* The converter (src/scripts/convert_to_cypher.py)                        *)

\* The largest number of records the converter is given.
MaxRecords == 2

besideCypher == <<scraperVars, extractVars, typeVars, mainVars>>

\* One character of escape_string (line 16): the quotes get a backslash,
\* the line breaks become spaces.
EscapeCh(c) ==
    IF c = "\"" THEN "\\\""
    ELSE IF c = "'" THEN "\\'"
    ELSE IF c \in {"\n", "\r"} THEN " "
    ELSE c

\* escape_string (lines 12-16); the halves are escaped separately to keep
\* the recursion shallow.
RECURSIVE escape_string(_)
escape_string(text) ==
    IF Len(text) = 0 THEN ""
    ELSE IF Len(text) = 1 THEN EscapeCh(text)
    ELSE LET h == Len(text) \div 2
         IN escape_string(SubSeq(text, 1, h)) \o escape_string(SubSeq(text, h + 1, Len(text)))

\* '\n'.join(queries), from query j on.
RECURSIVE JoinLines(_, _)
JoinLines(queries, j) ==
    IF j > Len(queries) THEN ""
    ELSE IF j = Len(queries) THEN queries[j]
    ELSE queries[j] \o "\n" \o JoinLines(queries, j + 1)

\* The statement of line 27.
EntityStatement(counter, name, description) ==
    "CREATE (e" \o ToString(counter) \o ":Entity {name: \"" \o name
        \o "\", description: \"" \o description \o "\"})"

\* The loop of lines 22-29 from entity j on: the statements, and the counter
\* after them.
RECURSIVE EntityQueries(_, _, _)
EntityQueries(entities, j, counter) ==
    IF j > Len(entities) THEN [queries |-> << >>, counter |-> counter]
    ELSE LET name == escape_string(Get(entities[j], "name", ""))
             description == escape_string(Get(entities[j], "description", ""))
         IN IF name # ""
            THEN LET rest == EntityQueries(entities, j + 1, counter + 1)
                 IN [queries |-> <<EntityStatement(counter, name, description)>>
                                    \o rest.queries,
                     counter |-> rest.counter]
            ELSE EntityQueries(entities, j + 1, counter)

\* convert_entities_to_cypher (lines 18-31).
convert_entities_to_cypher(entities, counter) ==
    LET made == EntityQueries(entities, 1, counter)
    IN [text |-> JoinLines(made.queries, 1), counter |-> made.counter]

\* The statement of lines 45-50.
RelationshipStatement(counter, entity1_name, entity2_name, relation_type, description) ==
    "MATCH (e1:Entity {name: \"" \o entity1_name \o "\"})\n"
        \o "MATCH (e2:Entity {name: \"" \o entity2_name \o "\"})\n"
        \o "CREATE (e1)-[r" \o ToString(counter) \o ":RELATES_TO {\n"
        \o "    type: \"" \o relation_type \o "\",\n"
        \o "    description: \"" \o description \o "\"\n"
        \o "}]->(e2)"

\* rel['entity1']['name'] and rel['entity2']['name'] raise no KeyError.
WellFormed(rel) ==
    /\ "entity1" \in DOMAIN rel
    /\ "name" \in DOMAIN rel.entity1
    /\ "entity2" \in DOMAIN rel
    /\ "name" \in DOMAIN rel.entity2

\* The relationship gets a statement (lines 38-44, 54-56).
Emitted(rel) ==
    /\ WellFormed(rel)
    /\ escape_string(rel.entity1.name) # ""
    /\ escape_string(rel.entity2.name) # ""

\* The loop of lines 37-56 from relationship j on.
RECURSIVE RelationshipQueries(_, _, _)
RelationshipQueries(relationships, j, counter) ==
    IF j > Len(relationships) THEN [queries |-> << >>, counter |-> counter]
    ELSE IF Emitted(relationships[j])
         THEN LET rel == relationships[j]
                  rest == RelationshipQueries(relationships, j + 1, counter + 1)
              IN [queries |->
                     <<RelationshipStatement(
                           counter,
                           escape_string(rel.entity1.name),
                           escape_string(rel.entity2.name),
                           escape_string(Get(rel, "relation_type", "RELATED_TO")),
                           escape_string(Get(rel, "description", "")))>>
                         \o rest.queries,
                  counter |-> rest.counter]
         ELSE RelationshipQueries(relationships, j + 1, counter)

\* convert_relationships_to_cypher (lines 33-58).
convert_relationships_to_cypher(relationships, counter) ==
    LET made == RelationshipQueries(relationships, 1, counter)
    IN [text |-> JoinLines(made.queries, 1), counter |-> made.counter]

\* create_constraints (lines 66-69).
create_constraints ==
    "// Create constraints\n"
        \o "CREATE CONSTRAINT entity_name_unique IF NOT EXISTS FOR (e:Entity) REQUIRE e.name IS UNIQUE;"

\* create_indexes (lines 60-64).
create_indexes ==
    "// Create indexes for better performance\n"
        \o "CREATE INDEX entity_name_index IF NOT EXISTS FOR (e:Entity) ON (e.name);\n"
        \o "CREATE INDEX relationship_type_index IF NOT EXISTS FOR ()-[r:RELATES_TO]-() ON (r.type);"

\* The URLs of the records the converter is given.
CypherUrls == {"https://www.zillow.com/homes/", "https://example.org/blog"}

\* Records as scrape_url returns them (lines 170-183), and one record, as a
\* JSON file can hold it, with quotes and a line break in its strings, an
\* entity without a name and a relationship without its second entity.
CypherRecords ==
    {[entities |-> k.entities,
      relationships |-> k.relationships,
      error |-> k.error,
      extraction_method |-> k.extraction_method,
      text_length |-> k.text_length,
      domain |-> k.domain,
      source_url |-> u,
      scraping_method |-> ScrapingMethod(<< >>),
      proxy_used |-> ProxyUsed(<< >>)] :
        u \in CypherUrls, k \in UNION {Knowledge[w, page] : w \in CypherUrls, page \in PageTexts}}
    \cup {[error |-> TRUE,
           message |-> FailureMessage(DefaultMaxRetries, "Read timed out"),
           source_url |-> "https://example.org/blog"],
          [entities |-> <<[name |-> "O'Reilly", description |-> "Entity: \"O'Reilly\""],
                          [name |-> "", description |-> "Entity: "],
                          [name |-> "Bluetooth", description |-> "Entity:\nBluetooth"]>>,
           relationships |-> <<[entity1 |-> [name |-> "O'Reilly"],
                                entity2 |-> [name |-> "Bluetooth"],
                                relation_type |-> "RELATES_TO",
                                description |-> "O'Reilly wrote\r\nabout Bluetooth"],
                               [entity1 |-> [name |-> "O'Reilly"],
                                relation_type |-> "RELATES_TO"]>>,
           error |-> FALSE,
           source_url |-> "https://example.org/blog"]}

\* The lists of at most MaxRecords records.
RecordLists == UNION {[1..n -> CypherRecords] : n \in 1..MaxRecords}

\* The JSON files are there: their items, in the order of lines 95-106.
InitCypher ==
    /\ ScraperNew
    /\ ExtractIdle
    /\ TypeIdle
    /\ MainIdle
    /\ cy_pc = "start"
    /\ cy_data \in RecordLists
    /\ cy_item = 0
    /\ all_queries = << >>
    /\ entity_counter = 0
    /\ relationship_counter = 0
    /\ cy_total_entities = 0
    /\ cy_total_relationships = 0

\* process_json_files up to its loop (lines 82-93).
process_json_files ==
    /\ cy_pc = "start"
    /\ all_queries' = <<create_constraints,
                        create_indexes,
                        "// Clear existing data (optional)",
                        "MATCH (n) DETACH DELETE n;",
                        "",
                        "// Create entities and relationships">>
    /\ cy_item' = 1
    /\ cy_pc' = "item"
    /\ UNCHANGED <<cy_data, entity_counter, relationship_counter, cy_total_entities,
                   cy_total_relationships>>
    /\ UNCHANGED besideCypher

\* if item.get("error", False): continue (lines 107-108).
skip_error_item ==
    /\ cy_pc = "item"
    /\ cy_item <= Len(cy_data)
    /\ Get(cy_data[cy_item], "error", FALSE)
    /\ cy_item' = cy_item + 1
    /\ UNCHANGED <<cy_pc, cy_data, all_queries, entity_counter, relationship_counter,
                   cy_total_entities, cy_total_relationships>>
    /\ UNCHANGED besideCypher

\* Lines 111-116: the entities of an item.
process_entities ==
    /\ cy_pc = "item"
    /\ cy_item <= Len(cy_data)
    /\ ~Get(cy_data[cy_item], "error", FALSE)
    /\ LET item == cy_data[cy_item]
           entity_query == convert_entities_to_cypher(Get(item, "entities", << >>),
                                                      entity_counter)
       IN IF entity_query.text # ""
          THEN /\ all_queries' = all_queries
                      \o <<"// Entities from " \o Get(item, "source_url", "unknown"),
                           entity_query.text>>
               /\ entity_counter' = entity_query.counter
               /\ cy_total_entities' = cy_total_entities + Len(item.entities)
          ELSE UNCHANGED <<all_queries, entity_counter, cy_total_entities>>
    /\ cy_pc' = "relationships"
    /\ UNCHANGED <<cy_data, cy_item, relationship_counter, cy_total_relationships>>
    /\ UNCHANGED besideCypher

\* Lines 119-124: the relationships of an item.
process_relationships ==
    /\ cy_pc = "relationships"
    /\ LET item == cy_data[cy_item]
           rel_query == convert_relationships_to_cypher(Get(item, "relationships", << >>),
                                                        relationship_counter)
       IN IF rel_query.text # ""
          THEN /\ all_queries' = all_queries
                      \o <<"// Relationships from " \o Get(item, "source_url", "unknown"),
                           rel_query.text>>
               /\ relationship_counter' = rel_query.counter
               /\ cy_total_relationships' = cy_total_relationships + Len(item.relationships)
          ELSE UNCHANGED <<all_queries, relationship_counter, cy_total_relationships>>
    /\ cy_item' = cy_item + 1
    /\ cy_pc' = "item"
    /\ UNCHANGED <<cy_data, entity_counter, cy_total_entities>>
    /\ UNCHANGED besideCypher

\* The loop is exhausted: the statements are joined and saved (lines
\* 131-162).
save_cypher ==
    /\ cy_pc = "item"
    /\ cy_item > Len(cy_data)
    /\ cy_pc' = "done"
    /\ UNCHANGED <<cy_data, cy_item, all_queries, entity_counter, relationship_counter,
                   cy_total_entities, cy_total_relationships>>
    /\ UNCHANGED besideCypher

NextCypher ==
    \/ process_json_files
    \/ skip_error_item
    \/ process_entities
    \/ process_relationships
    \/ save_cypher

SpecCypher == InitCypher /\ [][NextCypher]_vars

-----------------------------------------------------------------------------
(* Claims about the converter                                              *)

\* The positions of the line breaks of text.
Breaks(text) == {p \in 1..Len(text) : Ch(text, p) = "\n"}

\* The lines of text.
LinesOf(text) ==
    {SubSeq(text, p + 1, q - 1) :
        <<p, q>> \in {pq \in (Breaks(text) \cup {0}) \X (Breaks(text) \cup {Len(text) + 1}) :
                        /\ pq[1] < pq[2]
                        /\ \A b \in Breaks(text) : ~(pq[1] < b /\ b < pq[2])}}

\* The statements of the file written: the lines of '\n'.join(all_queries),
\* each with its place.
Statements ==
    UNION {{<<j, line>> : line \in LinesOf(all_queries[j])} : j \in DOMAIN all_queries}

\* The statements that create a node with the given name.
NodesNamed(name) ==
    {s \in Statements :
        \E c \in 0..entity_counter :
            LitAt(s[2], 1, "CREATE (e" \o ToString(c) \o ":Entity {name: \""
                               \o escape_string(name) \o "\", description: \"")}

\* The statements that create a node.
NodeStatements == {s \in Statements : LitAt(s[2], 1, "CREATE (e") /\ ~LitAt(s[2], 1, "CREATE (e1)-")}

\* The statements that create an edge.
EdgeStatements == {s \in Statements : LitAt(s[2], 1, "CREATE (e1)-[r")}

\* The entity names found in the non-error records.
EntityNames ==
    {cy_data[j].entities[n].name :
        <<j, n>> \in {jn \in Slots(cy_data, "entities") :
                         Get(cy_data[jn[1]].entities[jn[2]], "name", "") # ""}}

\* One node for each entity name of the non-error records.
OneNodePerName ==
    /\ \A name \in EntityNames : Cardinality(NodesNamed(name)) = 1
    /\ Cardinality(NodeStatements) = Cardinality(EntityNames)

\* One edge for each relationship of the non-error records that names its
\* two entities.
OneEdgePerRelationship ==
    Cardinality(EdgeStatements)
        = Cardinality({jn \in Slots(cy_data, "relationships") :
                          Emitted(cy_data[jn[1]].relationships[jn[2]])})

\* C13 - Graph export: over any list of records the converter processes, the
\* statements emitted create exactly one node for each unique entity name
\* found in the non-error records (a name in two records gives one node) and
\* exactly one directed edge for each relationship of those records.
GraphExport == cy_pc = "done" => OneNodePerName /\ OneEdgePerRelationship

\* The converter has ended on two non-error records that share an entity
\* name: the name has two nodes, while each relationship has its one edge.
GraphExportTwoNodes ==
    /\ cy_pc = "done"
    /\ OneEdgePerRelationship
    /\ Len(cy_data) = 2
    /\ cy_data[1] # cy_data[2]
    /\ \E name \in EntityNames : Cardinality(NodesNamed(name)) = 2

====
